---- MODULE Spec2Model ----
(***************************************************************************)
(* Model of the activity-aggregation pipeline of github-stats:             *)
(*   - the bounded fan-out of Client.GetLanguages and                      *)
(*     Client.getCommitActivityFull (internal/github/client.go),           *)
(*   - the fallback chain of Client.GetCommitActivity with its three       *)
(*     strategies,                                                         *)
(*   - the streak reduction StatsCalculator.calculateStreaks               *)
(*     (internal/github/stats.go).                                         *)
(*                                                                         *)
(* A time.Time is modelled as an integer number of hours since             *)
(* 2024-01-01T00:00:00Z; every instant the program handles is in UTC.      *)
(* A Go map is a function whose DOMAIN is the set of keys present.         *)
(* Byte counts stay far below 2^63, so int64 addition does not wrap.       *)
(***************************************************************************)
EXTENDS Integers, Sequences, FiniteSets, TLC

\* ------------------------------------------------------------------ bounds
MaxRepos == 2
MaxWorkersBound == 2
MaxDates == 3
MaxDaySpan == 2
MaxBytes == 3
MaxListed == 6

\* ------------------------------------------------------- program constants
CalendarWindows == 5
MaxEventPages == 10
HoursPerDay == 24

\* ------------------------------------------------------------ time.Time
\* Days of the months of 2024 (a leap year), the year the modelled instants
\* fall in.
MonthLen(m) ==
  IF m = 2 THEN 29
  ELSE IF m \in {4, 6, 9, 11} THEN 30 ELSE 31

\* Day number (0 = 2024-01-01) of an instant, and its hour of day.
DayOf(t) == t \div HoursPerDay
Hour(t) == t % HoursPerDay

RECURSIVE CivilFrom(_, _)
\* <<year, month, day>> of day number n, walking the months from month m.
CivilFrom(n, m) ==
  IF n < MonthLen(m) THEN <<2024, m, n + 1>>
  ELSE CivilFrom(n - MonthLen(m), m + 1)

\* date.Format("2006-01-02"): the calendar date of the instant.
FormatDate(t) == CivilFrom(DayOf(t), 1)

RECURSIVE DaysBefore(_)
\* Number of days of 2024 before the first of month m.
DaysBefore(m) == IF m = 1 THEN 0 ELSE DaysBefore(m - 1) + MonthLen(m - 1)

\* time.Date(y, m, d, 0, 0, 0, 0, time.UTC)
DateUTC(ymd) == (DaysBefore(ymd[2]) + ymd[3] - 1) * HoursPerDay

\* int(a.Sub(b).Hours() / 24): the conversion to int truncates toward zero.
DaysBetween(a, b) ==
  LET h == a - b
  IN IF h >= 0 THEN h \div HoursPerDay ELSE -((-h) \div HoursPerDay)

\* The instant of hour h of day number d.
At(d, h) == d * HoursPerDay + h

\* The zero time.Time (0001-01-01T00:00:00Z), in hours relative to 2024-01-01.
ZeroTime == -17733240

\* ------------------------------------------------------- calculateStreaks
\* An empty Go map.
EmptyMap == [k \in {} |-> 0]

\* m with m[k] = v.
MapPut(m, k, v) == [x \in DOMAIN m \cup {k} |-> IF x = k THEN v ELSE m[x]]

\* Normalize without the truncation to midnight.
NormalizeKeepHour(date) == date

\* stats.go 123: time.Date(date.Year(), date.Month(), date.Day(), 0, ..., UTC)
Normalize(date) == DateUTC(FormatDate(date))

RECURSIVE BuildDateSet(_, _)
\* stats.go 121-128: date string -> normalized day, the first instant of a
\* day wins.
BuildDateSet(dates, acc) ==
  IF dates = <<>> THEN acc
  ELSE LET normalized == Normalize(Head(dates))
           dateStr == FormatDate(normalized)
       IN BuildDateSet(Tail(dates),
                       IF dateStr \in DOMAIN acc THEN acc
                       ELSE MapPut(acc, dateStr, normalized))

RECURSIVE IterOrders(_)
\* The orders in which a range loop may visit the keys of a Go map.
IterOrders(S) ==
  IF S = {} THEN {<<>>}
  ELSE UNION {{<<x>> \o o : o \in IterOrders(S \ {x})} : x \in S}

RECURSIVE InsertBefore(_, _)
\* x placed in the ascending sequence s, by time.Before.
InsertBefore(s, x) ==
  IF s = <<>> THEN <<x>>
  ELSE IF x < Head(s) THEN <<x>> \o s
  ELSE <<Head(s)>> \o InsertBefore(Tail(s), x)

\* SortDates without the sort.
SortDatesNot(s) == s

RECURSIVE SortDates(_)
\* stats.go 134-136: sort.Slice(uniqueDates, Before)
SortDates(s) == IF s = <<>> THEN <<>> ELSE InsertBefore(SortDates(Tail(s)), Head(s))

\* CloseStreak that never replaces the maximum.
CloseStreakNever(st, lastDay) == st

\* CloseStreak that also replaces the maximum on a tie.
CloseStreakOnTie(st, lastDay) ==
  IF st.currentStreak >= st.maxStreak
  THEN [st EXCEPT !.maxStreak = st.currentStreak,
                  !.maxStart = st.currentStart,
                  !.maxEnd = lastDay]
  ELSE st

\* stats.go 160-164, 170-174: the streak that ends at lastDay replaces the
\* maximum if it is strictly longer.
CloseStreak(st, lastDay) ==
  IF st.currentStreak > st.maxStreak
  THEN [st EXCEPT !.maxStreak = st.currentStreak,
                  !.maxStart = st.currentStart,
                  !.maxEnd = lastDay]
  ELSE st

RECURSIVE StreakLoop(_, _, _)
\* stats.go 152-168: the walk over uniqueDates; i is the 1-based index of the
\* element the Go loop calls uniqueDates[i].
StreakLoop(u, i, st) ==
  IF i > Len(u) THEN st
  ELSE LET daysDiff == DaysBetween(u[i], u[i - 1])
       IN IF daysDiff = 1
          THEN StreakLoop(u, i + 1, [st EXCEPT !.currentStreak = @ + 1])
          ELSE IF daysDiff = 0
          THEN StreakLoop(u, i + 1, st)
          ELSE LET closed == CloseStreak(st, u[i - 1])
               IN StreakLoop(u, i + 1, [closed EXCEPT !.currentStreak = 1,
                                                      !.currentStart = u[i]])

\* &StreakInfo{}
ZeroStreakInfo ==
  [CurrentStreak |-> 0, CurrentStart |-> ZeroTime, MaxStreak |-> 0,
   MaxStart |-> ZeroTime, MaxEnd |-> ZeroTime, CommitDates |-> <<>>]

\* stats.go 116-193; order is the order in which the range loop of line 131
\* visits dateSet, nowT the value of time.Now().UTC().
calculateStreaks(commitDates, nowT, order) ==
  IF Len(commitDates) = 0 THEN ZeroStreakInfo
  ELSE
    LET dateSet == BuildDateSet(commitDates, EmptyMap)
        uniqueDates == SortDates([i \in DOMAIN order |-> dateSet[order[i]]])
    IN IF Len(uniqueDates) = 0
       THEN [ZeroStreakInfo EXCEPT !.CommitDates = uniqueDates]
       ELSE
         LET st0 == [currentStreak |-> 1, maxStreak |-> 1,
                     currentStart |-> uniqueDates[1],
                     maxStart |-> uniqueDates[1], maxEnd |-> uniqueDates[1]]
             st1 == StreakLoop(uniqueDates, 2, st0)
             st == CloseStreak(st1, uniqueDates[Len(uniqueDates)])
             today == Normalize(nowT)
             lastCommit == uniqueDates[Len(uniqueDates)]
             daysSinceLastCommit == DaysBetween(today, lastCommit)
             active == daysSinceLastCommit <= 1
         IN [CurrentStreak |-> IF active THEN st.currentStreak ELSE 0,
             CurrentStart |-> IF active THEN st.currentStart ELSE ZeroTime,
             MaxStreak |-> st.maxStreak,
             MaxStart |-> st.maxStart,
             MaxEnd |-> st.maxEnd,
             CommitDates |-> uniqueDates]

\* ------------------------------------------------------------------ state
VARIABLES
  commitDates,  \* calculateStreaks: its argument (stats.go 116)
  now,          \* calculateStreaks: time.Now().UTC() (stats.go 176)
  info,         \* calculateStreaks: <<>> before the call, <<*StreakInfo>> after
  firstInfo,    \* the StreakInfo of the first call made on this activity set
  reordered,    \* the argument is no longer in the order of the first call
  entry,        \* the Client method the caller invoked
  maxWorkers,   \* Client.maxWorkers
  fullScan,     \* GetCommitActivity: its fullScan argument
  pc,           \* position of the calling goroutine
  calls,        \* the strategies GetCommitActivity has invoked, in order
  dates,        \* GetCommitActivity: dates of line 163
  err,          \* GetCommitActivity: err of line 163
  yearsBack,    \* GetContributionCalendar: loop variable of line 291
  page,         \* getCommitActivityRecent: loop variable of line 179
  accDates,     \* allDates / commitDates of the strategy that is running
  dateSet,      \* dateSet of the strategy that is running: the keys set true
  requests,     \* the requests the strategy that is running has made
  repos,        \* the repositories of the fan-out
  idx,          \* fan-out: next element of the range loop over repos
  wpc,          \* fan-out: position of the goroutine of each repository
  wres,         \* fan-out: the value each goroutine's fetch returned
  werr,         \* fan-out: the err each goroutine's fetch returned
  wfail,        \* fan-out: the page at which each ListCommits failed, or 0
  merged,       \* fan-out: how many times each goroutine has merged
  sem, \* fan-out: number of elements in the channel sem
  errChan,      \* fan-out: the errors sent on errChan, in the order sent
  recvd,        \* fan-out: how many elements of errChan have been received
  mu,           \* fan-out: 0, or the goroutine holding the mutex
  wg,           \* fan-out: the WaitGroup counter
  languages,    \* GetLanguages: the accumulator
  firstErr,     \* fan-out: firstErr
  retVal,       \* first value returned to the caller
  retErr,       \* error returned to the caller
  outcome,      \* what Calculate did on the return: it resumed or aborted
  flags,        \* main: the command line and environment config.Load reads
  stats,        \* the *UserStats being filled in, <<>> when there is none
  repoCount,    \* GetUserPullRequests: repoCount, keyed by first-seen rank
  cancelled     \* the Client's ctx is done

streakVars == <<commitDates, now, info, firstInfo, reordered>>
callVars == <<entry, maxWorkers, fullScan, calls, dates, err, retVal, retErr,
              outcome>>
stratVars == <<yearsBack, page, accDates, dateSet, requests>>
fanVars == <<repos, idx, wpc, wres, werr, wfail, merged, sem, errChan,
             recvd, mu, wg, languages, firstErr>>
reportVars == <<flags, stats, repoCount>>
vars == <<streakVars, callVars, stratVars, fanVars, reportVars, cancelled,
          pc>>

\* ----------------------------------------------------------------- errors
Nil == [kind |-> "nil", repo |-> 0]
\* client.go 137: "failed to get languages for <name>: ..."
LanguagesErr(r) == [kind |-> "languages", repo |-> r]
\* client.go 102: "failed to list repositories: ..."
RepositoriesErr == [kind |-> "repositories", repo |-> 0]
\* client.go 183: "failed to list events: ..."
EventsErr == [kind |-> "events", repo |-> 0]
\* client.go 354-381: the errors of getContributionsForPeriod
CalendarErr == [kind |-> "calendar", repo |-> 0]

\* ----------------------------------------------------------- repositories
\* The repositories the gateway may list: the fork flag (a *bool), the
\* language map ListLanguages answers with, and the pages of commit author
\* dates ListCommits answers with.
RepoKinds ==
  { [fork |-> "false", langs |-> ("Go" :> 1), stars |-> <<1>>,
     commits |-> << <<At(58, 23)>>, <<At(58, 0), At(59, 0)>> >>],
    [fork |-> "nil", langs |-> ("Go" :> 2 @@ "C" :> 1), stars |-> <<>>,
     commits |-> << <<At(59, 23), At(60, 0)>> >>],
    [fork |-> "true", langs |-> ("C" :> 2), stars |-> <<2>>,
     commits |-> << <<At(58, 0)>> >>] }

RepoLists == UNION {[1..n -> RepoKinds] : n \in 0..MaxRepos}

\* IsFork that takes no repository for a fork.
IsForkNever(r) == FALSE

\* client.go 125: repo.Fork != nil && *repo.Fork
IsFork(r) == r.fork # "nil" /\ r.fork = "true"

\* No Client method has been called.
ClientIdle ==
  /\ entry = "none" /\ maxWorkers = 1 /\ fullScan = FALSE /\ pc = "idle"
  /\ calls = <<>> /\ dates = <<>> /\ err = Nil
  /\ yearsBack = 0 /\ page = 1 /\ accDates = <<>> /\ dateSet = {}
  /\ requests = <<>>
  /\ repos = <<>> /\ idx = 1 /\ wpc = <<>> /\ wres = <<>> /\ werr = <<>>
  /\ wfail = <<>> /\ merged = <<>>
  /\ sem = 0 /\ errChan = <<>> /\ recvd = 0 /\ mu = 0 /\ wg = 0
  /\ languages = EmptyMap /\ firstErr = Nil
  /\ retVal = <<>> /\ retErr = Nil /\ outcome = "pending"
  /\ flags = <<>> /\ stats = <<>> /\ repoCount = <<>>
  /\ cancelled = FALSE

\* --------------------------------------------- calculateStreaks, its inputs
\* 2024-02-28 .. : the days cross the leap day and a month boundary.
Days == 58..(58 + MaxDaySpan)
InstantHours == {0, 23}
Instants == {At(d, h) : d \in Days, h \in InstantHours}

\* The literal activity sets of the streak examples: Jan 1, 2, 3, 10 and
\* Mar 1, Mar 5; and one whose longest run is not its first.
JanExample == <<At(0, 0), At(1, 0), At(2, 0), At(9, 0)>>
MarExample == <<At(60, 0), At(64, 0)>>
LateRunExample == <<At(58, 0), At(60, 23), At(61, 0)>>

InputDates ==
  UNION {[1..n -> Instants] : n \in 0..MaxDates} \cup {JanExample, MarExample, LateRunExample}

\* "now": 09:00 of a day, from the day before the first input day to two days
\* after the last.
NowChoices == {At(d, 9) : d \in 57..(60 + MaxDaySpan)}

InitStreak ==
  /\ commitDates \in InputDates
  /\ now \in NowChoices
  /\ info = <<>>
  /\ firstInfo = <<>>
  /\ reordered = FALSE
  /\ ClientIdle

\* s.calculateStreaks(commitDates), stats.go 51
Calculate ==
  /\ \E order \in IterOrders(DOMAIN BuildDateSet(commitDates, EmptyMap)) :
       info' = <<calculateStreaks(commitDates, now, order)>>
  /\ firstInfo' = IF firstInfo = <<>> THEN info' ELSE firstInfo
  /\ UNCHANGED <<cancelled, commitDates, now, reordered, callVars, stratVars, fanVars,
                 reportVars, pc>>

\* The same activity set handed over in another order: two neighbouring
\* instants of the argument change places before the next call.
Reorder ==
  /\ firstInfo # <<>>
  /\ \E i \in DOMAIN commitDates :
       /\ i < Len(commitDates)
       /\ commitDates[i] # commitDates[i + 1]
       /\ commitDates' = [commitDates EXCEPT ![i] = commitDates[i + 1],
                                              ![i + 1] = commitDates[i]]
  /\ info' = <<>>
  /\ reordered' = TRUE
  /\ UNCHANGED <<cancelled, now, firstInfo, callVars, stratVars, fanVars, reportVars, pc>>

NextStreak == Calculate \/ Reorder

SpecStreak == InitStreak /\ [][NextStreak]_vars

\* ----------------------------------------------------------------- fan-out
\* The fan-out that is running: GetLanguages (client.go 116-160) or
\* getCommitActivityFull (client.go 206-256), which GetCommitActivity calls.
\* The two functions share their structure line for line; getRepoCommits
\* never returns an error, so SendErr is taken by GetLanguages only.
Workers == DOMAIN wpc
IsLanguages == entry = "GetLanguages"

\* SemHasRoom of a gate that never blocks.
SemAlwaysRoom == TRUE

\* make(chan struct{}, c.maxWorkers): a send blocks while the buffer is full.
SemHasRoom == sem < maxWorkers

\* ErrChanHasRoom of a channel made without a buffer, which has no
\* receiver before wg.Wait() returns.
ErrChanNoBuffer == Len(errChan) - recvd < 0

\* make(chan error, len(repos)): a send blocks while the buffer is full.
ErrChanHasRoom == Len(errChan) - recvd < Len(repos)

\* The goroutines that have sent to sem and not yet received from it.
Holders == {w \in Workers : wpc[w] \in {"fetch", "senderr", "lock", "merge", "release"}}

RECURSIVE DedupByDay(_, _)
\* client.go 234-240 (and 310-316): every date whose day is not yet in
\* dateSet is appended and its day recorded. st = [set, out].
DedupByDay(ds, st) ==
  IF ds = <<>> THEN st
  ELSE LET dateStr == FormatDate(Head(ds))
       IN DedupByDay(Tail(ds),
                     IF dateStr \in st.set THEN st
                     ELSE [set |-> st.set \cup {dateStr},
                           out |-> Append(st.out, Head(ds))])

RECURSIVE Concat(_)
Concat(ps) == IF ps = <<>> THEN <<>> ELSE Head(ps) \o Concat(Tail(ps))

\* getRepoCommits that drops the pages it fetched when a request fails.
getRepoCommitsOrNothing(commits, failAt) ==
  [dates |-> IF failAt = 0 THEN Concat(commits) ELSE <<>>,
   err |-> Nil]

\* getRepoCommits that returns the error of the request that failed.
getRepoCommitsOrError(commits, failAt) ==
  [dates |-> IF failAt = 0 THEN Concat(commits)
             ELSE Concat(SubSeq(commits, 1, failAt - 1)),
   err |-> IF failAt = 0 THEN Nil ELSE [kind |-> "commits", repo |-> failAt]]

\* client.go 258-284: the dates of the pages fetched before the request for
\* page failAt fails (failAt = 0: no request fails); the error is dropped.
getRepoCommits(commits, failAt) ==
  [dates |-> IF failAt = 0 THEN Concat(commits)
             ELSE Concat(SubSeq(commits, 1, failAt - 1)),
   err |-> Nil]

\* MergeLanguages that assigns where it should add.
MergeLanguagesOverwrite(acc, langs) ==
  [l \in DOMAIN acc \cup DOMAIN langs |->
     IF l \in DOMAIN langs THEN langs[l] ELSE acc[l]]

\* MergeLanguages that forgets what was accumulated.
MergeLanguagesReplace(acc, langs) == langs

\* client.go 142-144: languages[lang] += int64(bytes)
MergeLanguages(acc, langs) ==
  [l \in DOMAIN acc \cup DOMAIN langs |->
     (IF l \in DOMAIN acc THEN acc[l] ELSE 0)
     + (IF l \in DOMAIN langs THEN langs[l] ELSE 0)]

\* The locals of a fan-out over rs, before the range loop (client.go 117-122,
\* 212-218).
FanOutStart(rs) ==
  /\ repos' = rs
  /\ idx' = 1
  /\ wpc' = [w \in DOMAIN rs |-> "none"]
  /\ wres' = [w \in DOMAIN rs |-> <<>>]
  /\ werr' = [w \in DOMAIN rs |-> Nil]
  /\ wfail' = [w \in DOMAIN rs |-> 0]
  /\ merged' = [w \in DOMAIN rs |-> 0]
  /\ sem' = 0 /\ errChan' = <<>> /\ recvd' = 0 /\ mu' = 0 /\ wg' = 0
  /\ languages' = EmptyMap /\ firstErr' = Nil

\* client.go 124-147, 220-243: one iteration of the range loop. GetLanguages
\* skips a fork; getCommitActivityFull submits every repository.
Submit ==
  /\ pc = "fanout"
  /\ idx <= Len(repos)
  /\ idx' = idx + 1
  /\ IF IsLanguages /\ IsFork(repos[idx])
     THEN UNCHANGED <<wg, wpc>>
     ELSE /\ wg' = wg + 1
          /\ wpc' = [wpc EXCEPT ![idx] = "acquire"]
  /\ UNCHANGED <<cancelled, reportVars,
                 streakVars, callVars, stratVars, pc, repos, wres, werr, wfail, merged,
                 sem, errChan, recvd, mu, languages, firstErr>>

\* client.go 132, 224: sem <- struct{}{}
Acquire(w) ==
  /\ wpc[w] = "acquire"
  /\ SemHasRoom
  /\ sem' = sem + 1
  /\ wpc' = [wpc EXCEPT ![w] = "fetch"]
  /\ UNCHANGED <<cancelled, reportVars,
                 streakVars, callVars, stratVars, pc, repos, idx, wres, werr,
                 wfail, merged, errChan, recvd, mu, wg, languages, firstErr>>

\* client.go 134, 266: the requests carry c.ctx, and a request whose
\* context is done returns the context's error.
MayAnswer == ~cancelled

\* client.go 134-139: ListLanguages answers or fails.
FetchLanguages(w) ==
  /\ IsLanguages
  /\ wpc[w] = "fetch"
  /\ \E fail \in (IF MayAnswer THEN BOOLEAN ELSE {TRUE}) :
       IF fail
       THEN /\ werr' = [werr EXCEPT ![w] = LanguagesErr(w)]
            /\ wpc' = [wpc EXCEPT ![w] = "senderr"]
            /\ UNCHANGED wres
       ELSE /\ wres' = [wres EXCEPT ![w] = repos[w].langs]
            /\ wpc' = [wpc EXCEPT ![w] = "lock"]
            /\ UNCHANGED werr
  /\ UNCHANGED <<cancelled, reportVars,
                 streakVars, callVars, stratVars, pc, repos, idx, wfail, merged, sem,
                 errChan, recvd, mu, wg, languages, firstErr>>

\* client.go 227-231: getRepoCommits returns; any of its page requests may
\* have failed, and one of them has if the context is done.
FetchCommits(w) ==
  /\ ~IsLanguages
  /\ wpc[w] = "fetch"
  /\ \E failAt \in (IF MayAnswer THEN 0 ELSE 1)..Len(repos[w].commits) :
       LET r == getRepoCommits(repos[w].commits, failAt)
       IN /\ wres' = [wres EXCEPT ![w] = r.dates]
          /\ werr' = [werr EXCEPT ![w] = r.err]
          /\ wfail' = [wfail EXCEPT ![w] = failAt]
          /\ wpc' = [wpc EXCEPT ![w] = IF r.err # Nil THEN "senderr" ELSE "lock"]
  /\ UNCHANGED <<cancelled, reportVars,
                 streakVars, callVars, stratVars, pc, repos, idx, merged, sem,
                 errChan, recvd, mu, wg, languages, firstErr>>

\* SendErr that does not return after the send and goes on to the merge.
SendErrThenMerge(w) ==
  /\ wpc[w] = "senderr"
  /\ ErrChanHasRoom
  /\ errChan' = Append(errChan, werr[w])
  /\ wpc' = [wpc EXCEPT ![w] = "lock"]
  /\ UNCHANGED <<cancelled, reportVars,
                 streakVars, callVars, stratVars, pc, repos, idx, wres, werr,
                 wfail, merged, sem, recvd, mu, wg, languages, firstErr>>

\* client.go 137-138, 229-230: errChan <- err; return
SendErr(w) ==
  /\ wpc[w] = "senderr"
  /\ ErrChanHasRoom
  /\ errChan' = Append(errChan, werr[w])
  /\ wpc' = [wpc EXCEPT ![w] = "release"]
  /\ UNCHANGED <<cancelled, reportVars,
                 streakVars, callVars, stratVars, pc, repos, idx, wres, werr,
                 wfail, merged, sem, recvd, mu, wg, languages, firstErr>>

\* MutexFree of a lock that never blocks.
MutexAlwaysFree == TRUE

\* sync.Mutex: Lock blocks while another goroutine holds the mutex.
MutexFree == mu = 0

\* client.go 141, 233: mu.Lock()
Lock(w) ==
  /\ wpc[w] = "lock"
  /\ MutexFree
  /\ mu' = w
  /\ wpc' = [wpc EXCEPT ![w] = "merge"]
  /\ UNCHANGED <<cancelled, reportVars,
                 streakVars, callVars, stratVars, pc, repos, idx, wres, werr,
                 wfail, merged, sem, errChan, recvd, wg, languages, firstErr>>

\* client.go 142-145, 234-241: the merge and mu.Unlock()
Merge(w) ==
  /\ wpc[w] = "merge"
  /\ mu = w
  /\ IF IsLanguages
     THEN /\ languages' = MergeLanguages(languages, wres[w])
          /\ UNCHANGED <<accDates, dateSet>>
     ELSE LET st == DedupByDay(wres[w], [set |-> dateSet, out |-> accDates])
          IN /\ dateSet' = st.set
             /\ accDates' = st.out
             /\ UNCHANGED languages
  /\ merged' = [merged EXCEPT ![w] = @ + 1]
  /\ mu' = 0
  /\ wpc' = [wpc EXCEPT ![w] = "release"]
  /\ UNCHANGED <<cancelled, reportVars,
                 streakVars, callVars, yearsBack, page, requests, pc, repos,
                 idx, wres, werr, wfail, sem, errChan, recvd, wg, firstErr>>

\* Release that leaves its element in sem.
ReleaseKeepsSlot(w) ==
  /\ wpc[w] = "release"
  /\ wpc' = [wpc EXCEPT ![w] = "wgdone"]
  /\ UNCHANGED <<cancelled, reportVars,
                 streakVars, callVars, stratVars, pc, repos, idx, wres, werr,
                 wfail, merged, sem, errChan, recvd, mu, wg, languages, firstErr>>

\* client.go 133, 225: the deferred <-sem
Release(w) ==
  /\ wpc[w] = "release"
  /\ sem > 0
  /\ sem' = sem - 1
  /\ wpc' = [wpc EXCEPT ![w] = "wgdone"]
  /\ UNCHANGED <<cancelled, reportVars,
                 streakVars, callVars, stratVars, pc, repos, idx, wres, werr,
                 wfail, merged, errChan, recvd, mu, wg, languages, firstErr>>

\* client.go 131, 223: the deferred wg.Done()
Done(w) ==
  /\ wpc[w] = "wgdone"
  /\ wg' = wg - 1
  /\ wpc' = [wpc EXCEPT ![w] = "exit"]
  /\ UNCHANGED <<cancelled, reportVars,
                 streakVars, callVars, stratVars, pc, repos, idx, wres, werr,
                 wfail, merged, sem, errChan, recvd, mu, languages, firstErr>>

\* wg.Wait() returns once the counter is zero.
WaitGroupZero == wg = 0

\* client.go 149-150, 245-246: wg.Wait(); close(errChan)
Wait ==
  /\ pc = "fanout"
  /\ idx > Len(repos)
  /\ WaitGroupZero
  /\ pc' = "drain"
  /\ UNCHANGED <<cancelled, reportVars,
                 streakVars, callVars, stratVars, fanVars>>

\* KeepFirst that keeps the last error received.
KeepLast(first, e) == e

\* client.go 154-156, 250-252: if firstErr == nil { firstErr = err }
KeepFirst(first, e) == IF first = Nil THEN e ELSE first

\* client.go 152-157, 248-253: one iteration of the range over errChan
Drain ==
  /\ pc = "drain"
  /\ recvd < Len(errChan)
  /\ recvd' = recvd + 1
  /\ firstErr' = KeepFirst(firstErr, errChan[recvd + 1])
  /\ UNCHANGED <<cancelled, reportVars,
                 streakVars, callVars, stratVars, pc, repos, idx, wpc, wres,
                 werr, wfail, merged, sem, errChan, mu, wg, languages>>

\* client.go 159, 255: the return of the fan-out; getCommitActivityFull's
\* result is what GetCommitActivity returns (client.go 169).
Return ==
  /\ pc = "drain"
  /\ recvd = Len(errChan)
  /\ retVal' = IF IsLanguages THEN languages ELSE accDates
  /\ retErr' = firstErr
  /\ pc' = "done"
  /\ UNCHANGED <<cancelled, reportVars,
                 streakVars, outcome, entry, maxWorkers, fullScan, calls, dates, err,
                 stratVars, fanVars>>

\* ------------------------------------------------------ GetCommitActivity
\* What getContributionsForPeriod may answer for one window: the days with
\* a contribution, parsed by time.Parse("2006-01-02") to midnight UTC.
WindowAnswers == {<<>>, <<At(58, 0)>>, <<At(59, 0), At(58, 0)>>}

\* What ListEventsPerformedByUser may answer for one page: events with their
\* Type and CreatedAt (<<>> is a nil pointer).
EventPages ==
  { <<>>,
    <<[type |-> <<"PushEvent">>, createdAt |-> <<At(58, 5)>>]>>,
    <<[type |-> <<"PushEvent">>, createdAt |-> <<At(58, 23)>>],
      [type |-> <<"WatchEvent">>, createdAt |-> <<At(60, 0)>>],
      [type |-> <<>>, createdAt |-> <<At(60, 1)>>],
      [type |-> <<"PushEvent">>, createdAt |-> <<>>],
      [type |-> <<"PushEvent">>, createdAt |-> <<At(59, 1)>>]>> }

\* IsPushEvent that takes every event for a push.
IsPushEventAny(e) == TRUE

\* client.go 187: event.Type != nil && *event.Type == "PushEvent"
IsPushEvent(e) == e.type # <<>> /\ e.type[1] = "PushEvent"

RECURSIVE PushDates(_)
\* client.go 186-189: the CreatedAt of the events that are push events and
\* have one.
PushDates(events) ==
  IF events = <<>> THEN <<>>
  ELSE LET e == Head(events)
       IN (IF IsPushEvent(e) /\ e.createdAt # <<>>
           THEN <<e.createdAt[1]>> ELSE <<>>) \o PushDates(Tail(events))

\* CalendarAccepted that gives way to a requested full scan.
CalendarAcceptedUnlessFullScan(ds, e) == e = Nil /\ Len(ds) > 0 /\ ~fullScan

\* CalendarAccepted that accepts an empty calendar.
CalendarAcceptedIfNoError(ds, e) == e = Nil

\* client.go 164: err == nil && len(dates) > 0
CalendarAccepted(ds, e) == e = Nil /\ Len(ds) > 0

\* client.go 163: GetCommitActivity calls GetContributionCalendar.
CallCalendar ==
  /\ entry = "GetCommitActivity"
  /\ pc = "start"
  /\ calls' = Append(calls, "GetContributionCalendar")
  /\ yearsBack' = 0 /\ accDates' = <<>> /\ dateSet' = {}
  /\ requests' = <<>>
  /\ pc' = "calendar"
  /\ UNCHANGED <<cancelled, reportVars,
                 streakVars, outcome, entry, maxWorkers, fullScan, dates, err, retVal,
                 retErr, page, fanVars>>

\* KeepsPartial that fails the strategy whichever window fails.
KeepsPartialNever(y) == FALSE

\* client.go 304: if yearsBack > 0 { break }
KeepsPartial(y) == y > 0

\* client.go 291-317: one window of GetContributionCalendar. The window
\* always ends at or before now, so lines 295-300 change nothing.
CalendarWindow ==
  /\ pc = "calendar"
  /\ yearsBack < CalendarWindows
  /\ \/ \* the fetch fails: line 303-308
        /\ IF KeepsPartial(yearsBack)
           THEN dates' = accDates /\ err' = Nil
           ELSE dates' = <<>> /\ err' = CalendarErr
        /\ requests' = Append(requests, [yearsBack |-> yearsBack,
                                         ok |-> FALSE, dates |-> <<>>])
        /\ pc' = "decide"
        /\ UNCHANGED <<yearsBack, accDates, dateSet>>
     \/ \* the fetch answers: line 310-316
        /\ \E ans \in WindowAnswers :
             LET st == DedupByDay(ans, [set |-> dateSet, out |-> accDates])
             IN /\ dateSet' = st.set /\ accDates' = st.out
                /\ requests' = Append(requests, [yearsBack |-> yearsBack,
                                                 ok |-> TRUE, dates |-> ans])
        /\ yearsBack' = yearsBack + 1
        /\ UNCHANGED <<dates, err, pc>>
  /\ UNCHANGED <<cancelled, reportVars,
                 streakVars, outcome, entry, maxWorkers, fullScan, calls, retVal,
                 retErr, page, fanVars>>

\* client.go 319: return allDates, nil
CalendarReturn ==
  /\ pc = "calendar"
  /\ yearsBack >= CalendarWindows
  /\ dates' = accDates /\ err' = Nil
  /\ pc' = "decide"
  /\ UNCHANGED <<cancelled, reportVars,
                 streakVars, outcome, entry, maxWorkers, fullScan, calls, retVal,
                 retErr, stratVars, fanVars>>

\* client.go 164-171: accept the calendar or call one fallback.
Decide ==
  /\ pc = "decide"
  /\ IF CalendarAccepted(dates, err)
     THEN /\ retVal' = dates /\ retErr' = Nil
          /\ pc' = "done"
          /\ UNCHANGED <<calls, stratVars>>
     ELSE /\ calls' = Append(calls, IF fullScan THEN "getCommitActivityFull"
                                    ELSE "getCommitActivityRecent")
          /\ pc' = IF fullScan THEN "repositories" ELSE "recent"
          /\ page' = 1 /\ accDates' = <<>> /\ dateSet' = {}
          /\ requests' = <<>>
          /\ UNCHANGED <<yearsBack, retVal, retErr>>
  /\ UNCHANGED <<cancelled, reportVars,
                 streakVars, outcome, entry, maxWorkers, fullScan, dates, err, fanVars>>

\* client.go 179-201: one page of getCommitActivityRecent, and the return of
\* line 203 when the page reports no next page.
RecentPage ==
  /\ pc = "recent"
  /\ page <= MaxEventPages
  /\ \/ \* the request fails: line 182-184
        /\ retVal' = <<>> /\ retErr' = EventsErr
        /\ requests' = Append(requests, [page |-> page, ok |-> FALSE,
                                         next |-> FALSE])
        /\ pc' = "done"
        /\ UNCHANGED <<yearsBack, page, accDates, dateSet>>
     \/ \E events \in EventPages, hasNext \in BOOLEAN :
          LET st == DedupByDay(PushDates(events),
                               [set |-> dateSet, out |-> accDates])
          IN /\ dateSet' = st.set /\ accDates' = st.out
             /\ requests' = Append(requests, [page |-> page, ok |-> TRUE,
                                              next |-> hasNext])
             /\ IF hasNext
                THEN page' = page + 1 /\ UNCHANGED <<retVal, retErr, pc>>
                ELSE /\ retVal' = st.out /\ retErr' = Nil
                     /\ pc' = "done"
                     /\ UNCHANGED page
             /\ UNCHANGED yearsBack
  /\ UNCHANGED <<cancelled, reportVars,
                 streakVars, outcome, entry, maxWorkers, fullScan, calls, dates, err,
                 fanVars>>

\* client.go 179, 203: the page cap is reached.
RecentReturn ==
  /\ pc = "recent"
  /\ page > MaxEventPages
  /\ retVal' = accDates /\ retErr' = Nil
  /\ pc' = "done"
  /\ UNCHANGED <<cancelled, reportVars,
                 streakVars, outcome, entry, maxWorkers, fullScan, calls, dates, err,
                 stratVars, fanVars>>

\* client.go 207-218: getCommitActivityFull lists the repositories
\* (GetRepositories, client.go 91-114) and sets up its fan-out.
ListRepositories ==
  /\ pc = "repositories"
  /\ \/ /\ retVal' = <<>> /\ retErr' = RepositoriesErr
        /\ pc' = "done"
        /\ UNCHANGED fanVars
     \/ /\ \E rs \in RepoLists : FanOutStart(rs)
        /\ pc' = "fanout"
        /\ UNCHANGED <<retVal, retErr>>
  /\ UNCHANGED <<cancelled, reportVars,
                 streakVars, outcome, entry, maxWorkers, fullScan, calls, dates, err,
                 stratVars>>

\* client.go 116-122: GetLanguages(repos) sets up its fan-out.
CallGetLanguages ==
  /\ entry = "GetLanguages"
  /\ pc = "start"
  /\ FanOutStart(repos)
  /\ pc' = "fanout"
  /\ UNCHANGED <<cancelled, reportVars,
                 streakVars, callVars, stratVars>>

\* LanguagesAborts that gives up on an error.
LanguagesAbortsOnError(e) == e # Nil

\* stats.go 40-43: on an error of GetLanguages Calculate only prints a
\* warning.
LanguagesAborts(e) == FALSE

\* CommitActivityAborts that goes on whatever GetCommitActivity returns.
CommitActivityAbortsNever(e) == FALSE

\* stats.go 47: if err != nil
CommitActivityAborts(e) == e # Nil

\* stats.go 40-49: Calculate receives what the method returned. An error of
\* GetLanguages is printed as a warning and the map is kept; an error of
\* GetCommitActivity makes Calculate return nil and the wrapped error.
CalculateReceives ==
  /\ pc = "done"
  /\ outcome = "pending"
  /\ outcome' = IF (IF entry = "GetCommitActivity"
                    THEN CommitActivityAborts(retErr)
                    ELSE LanguagesAborts(retErr))
                THEN "aborted" ELSE "resumed"
  /\ UNCHANGED <<cancelled, reportVars,
                 streakVars, entry, maxWorkers, fullScan, calls, dates, err,
                 retVal, retErr, stratVars, fanVars, pc>>

\* --------------------------------------------------------- specification
\* No call of calculateStreaks is in progress.
StreakIdle ==
  /\ commitDates = <<>> /\ now = 0 /\ info = <<>> /\ firstInfo = <<>>
  /\ reordered = FALSE

Init ==
  /\ StreakIdle
  /\ entry \in {"GetLanguages", "GetCommitActivity"}
  /\ maxWorkers \in 1..MaxWorkersBound
  /\ fullScan \in (IF entry = "GetCommitActivity" THEN BOOLEAN ELSE {FALSE})
  /\ repos \in (IF entry = "GetLanguages" THEN RepoLists ELSE {<<>>})
  /\ pc = "start"
  /\ calls = <<>> /\ dates = <<>> /\ err = Nil
  /\ yearsBack = 0 /\ page = 1 /\ accDates = <<>> /\ dateSet = {}
  /\ requests = <<>>
  /\ idx = 1 /\ wpc = <<>> /\ wres = <<>> /\ werr = <<>>
  /\ wfail = <<>> /\ merged = <<>>
  /\ sem = 0 /\ errChan = <<>> /\ recvd = 0 /\ mu = 0 /\ wg = 0
  /\ languages = EmptyMap /\ firstErr = Nil
  /\ retVal = <<>> /\ retErr = Nil /\ outcome = "pending"
  /\ flags = <<>> /\ stats = <<>> /\ repoCount = <<>>
  /\ cancelled = FALSE

Next ==
  \/ CallGetLanguages \/ CallCalendar \/ CalendarWindow \/ CalendarReturn
  \/ Decide \/ RecentPage \/ RecentReturn \/ ListRepositories
  \/ Submit \/ Wait \/ Drain \/ Return \/ CalculateReceives
  \/ \E w \in Workers : Acquire(w)
  \/ \E w \in Workers : FetchLanguages(w)
  \/ \E w \in Workers : FetchCommits(w)
  \/ \E w \in Workers : SendErr(w)
  \/ \E w \in Workers : Lock(w)
  \/ \E w \in Workers : Merge(w)
  \/ \E w \in Workers : Release(w)
  \/ \E w \in Workers : Done(w)

Spec == Init /\ [][Next]_vars

\* ------------------------------------------------------ claims, fan-out
\* The goroutines whose fetch failed.
Failed == {w \in Workers : werr[w] # Nil}

\* C1: in every state of a fan-out (GetLanguages and getCommitActivityFull)
\* the goroutines that have acquired a slot of the gate and not released it
\* are at most maxWorkers, they are exactly the elements held in sem, and
\* once the fan-out has waited for its goroutines every slot has been
\* released, on the failure path as on the success path.
C1_SlotBound ==
  /\ Cardinality(Holders) <= maxWorkers
  /\ sem = Cardinality(Holders)
  /\ pc \in {"drain", "done"} => sem = 0
  /\ \A w \in Workers : wpc[w] \in {"wgdone", "exit"} => w \notin Holders

\* The gate is full, a goroutine waits for a slot, and a goroutine whose
\* fetch failed is about to release its slot.
C1_Witness ==
  /\ Cardinality(Holders) = maxWorkers
  /\ \E w, v \in Workers :
       /\ wpc[w] = "release" /\ werr[w] # Nil
       /\ wpc[v] = "acquire"

RECURSIVE SumBytes(_, _)
\* The bytes of language l over the repositories S.
SumBytes(l, S) ==
  IF S = {} THEN 0
  ELSE LET w == CHOOSE x \in S : TRUE
       IN (IF l \in DOMAIN repos[w].langs THEN repos[w].langs[l] ELSE 0)
          + SumBytes(l, S \ {w})

\* The per-language sum of the language maps of the repositories S.
SumLanguages(S) ==
  [l \in UNION {DOMAIN repos[w].langs : w \in S} |-> SumBytes(l, S)]

NonForks == {w \in DOMAIN repos : ~IsFork(repos[w])}

\* C2: when GetLanguages returns, the goroutine of every non-fork
\* repository has finished, the returned map is the per-language sum of the
\* maps of the non-fork repositories whose fetch did not fail, and the
\* returned error is non-nil exactly when some fetch failed.
C2_PartialSum ==
  (entry = "GetLanguages" /\ pc = "done") =>
    /\ \A w \in NonForks : wpc[w] = "exit"
    /\ retVal = SumLanguages(NonForks \ Failed)
    /\ (retErr # Nil) <=> (Failed # {})

\* GetLanguages has returned; exactly one fetch failed, the others are in
\* the map and an error is returned.
C2_Witness ==
  /\ entry = "GetLanguages" /\ pc = "done"
  /\ Cardinality(NonForks) >= 2
  /\ Cardinality(Failed) = 1
  /\ retErr # Nil
  /\ retVal = SumLanguages(NonForks \ Failed) /\ DOMAIN retVal # {}

\* C3: the error GetLanguages returns is the first error sent on errChan,
\* that is the first failure recorded in completion order; it is nil only if
\* no error was recorded.
C3_FirstRecorded ==
  (entry = "GetLanguages" /\ pc = "done") =>
    retErr = (IF errChan = <<>> THEN Nil ELSE errChan[1])

\* Two fetches failed and the one submitted later was recorded first: its
\* error is the one returned.
C3_Witness ==
  /\ entry = "GetLanguages" /\ pc = "done"
  /\ Len(errChan) >= 2
  /\ errChan[1].repo > errChan[2].repo
  /\ retErr = errChan[1]

\* ---------------------------------------------- claims, GetCommitActivity
\* GetContributionCalendar has returned to GetCommitActivity.
CalendarReturned == entry = "GetCommitActivity" /\ pc \notin {"start", "calendar"}

\* C4: if the calendar strategy returns no error and a non-empty set, no
\* fallback strategy is ever invoked, whatever fullScan is, and
\* GetCommitActivity returns the calendar's set with a nil error.
C4_CalendarWins ==
  (CalendarReturned /\ err = Nil /\ Len(dates) > 0) =>
    /\ calls = <<"GetContributionCalendar">>
    /\ pc \in {"decide", "done"}
    /\ pc = "done" => (retVal = dates /\ retErr = Nil)

\* A full scan was requested, the calendar answered with days, and
\* GetCommitActivity has returned them.
C4_Witness ==
  /\ CalendarReturned /\ pc = "done" /\ fullScan
  /\ err = Nil /\ Len(dates) > 1
  /\ retVal = dates

\* C5: when the calendar strategy fails or returns an empty set, exactly one
\* fallback is invoked, getCommitActivityRecent if fullScan is false and
\* getCommitActivityFull if it is true, and GetCommitActivity returns that
\* fallback's dates and error, never the calendar's error.
C5_OneFallback ==
  /\ Len(calls) <= 2
  /\ pc = "recent" => calls = <<"GetContributionCalendar", "getCommitActivityRecent">>
  /\ (entry = "GetCommitActivity" /\ pc \in {"repositories", "fanout", "drain"})
       => calls = <<"GetContributionCalendar", "getCommitActivityFull">>
  /\ (CalendarReturned /\ pc = "done" /\ ~(err = Nil /\ Len(dates) > 0)) =>
       /\ retErr # CalendarErr
       /\ IF fullScan
          THEN /\ calls = <<"GetContributionCalendar", "getCommitActivityFull">>
               /\ \/ retErr = RepositoriesErr /\ retVal = <<>>
                  \/ retErr = firstErr /\ retVal = accDates
          ELSE /\ calls = <<"GetContributionCalendar", "getCommitActivityRecent">>
               /\ \/ retErr = EventsErr /\ retVal = <<>>
                  \/ retErr = Nil /\ retVal = accDates

\* The calendar failed, a full scan was requested, and GetCommitActivity
\* has returned the days of the full scan without error.
C5_Witness ==
  /\ CalendarReturned /\ pc = "done" /\ fullScan
  /\ err = CalendarErr
  /\ calls = <<"GetContributionCalendar", "getCommitActivityFull">>
  /\ retErr = Nil /\ Len(retVal) > 0

\* ----------------------------------------------- claims, calculateStreaks
\* The calendar days of the input, as day numbers.
InputDays == {DayOf(commitDates[i]) : i \in DOMAIN commitDates}

\* C6: the CommitDates of calculateStreaks is strictly increasing by
\* calendar day (so it holds at most one entry per day) and its length,
\* which Calculate reports as TotalCommitDays, is the number of distinct
\* calendar days of the input.
C6_DedupSorted ==
  info # <<>> =>
    LET cd == info[1].CommitDates
    IN /\ \A i, j \in DOMAIN cd : i < j => DayOf(cd[i]) < DayOf(cd[j])
       /\ Len(cd) = Cardinality(InputDays)

\* The input lists three instants of two days, the latest first.
C6_Witness ==
  /\ info # <<>>
  /\ Len(commitDates) = 3 /\ Cardinality(InputDays) = 2
  /\ commitDates[1] > commitDates[3]
  /\ Len(info[1].CommitDates) = 2

\* C7: MaxStreak >= CurrentStreak >= 0 for every input and every today,
\* MaxStreak >= 1 when the input is not empty, and the result of an empty
\* input has every field zero or unset.
C7_StreakOrder ==
  info # <<>> =>
    LET r == info[1]
    IN /\ r.MaxStreak >= r.CurrentStreak
       /\ r.CurrentStreak >= 0
       /\ commitDates # <<>> => r.MaxStreak >= 1
       /\ commitDates = <<>> =>
            /\ r.CurrentStreak = 0 /\ r.MaxStreak = 0
            /\ r.CurrentStart = ZeroTime /\ r.MaxStart = ZeroTime
            /\ r.MaxEnd = ZeroTime /\ r.CommitDates = <<>>

\* The streak that is still running is the longest one.
C7_Witness ==
  /\ info # <<>>
  /\ info[1].CurrentStreak >= 2
  /\ info[1].MaxStreak = info[1].CurrentStreak

\* Days a, a+1, ..., a+n-1 are all active.
IsRun(a, n) == \A k \in 0..(n - 1) : a + k \in InputDays

\* The length of the longest run of consecutive active days.
LongestRun ==
  IF InputDays = {} THEN 0
  ELSE CHOOSE n \in 1..Cardinality(InputDays) :
         /\ \E a \in InputDays : IsRun(a, n)
         /\ \A m \in (n + 1)..Cardinality(InputDays) :
              ~ \E a \in InputDays : IsRun(a, m)

\* The first day of the earliest longest run.
FirstLongestStart ==
  CHOOSE a \in InputDays :
    /\ IsRun(a, LongestRun)
    /\ \A b \in InputDays : IsRun(b, LongestRun) => a <= b

\* C8: MaxStreak is the length of the longest run of consecutive calendar
\* days of the input, MaxStart and MaxEnd are the first and the last day of
\* the earliest run of that length; Jan 1, 2, 3, 10 give 3 over Jan 1-3 and
\* Mar 1, Mar 5 give 1.
C8_LongestRun ==
  info # <<>> =>
    LET r == info[1]
    IN /\ r.MaxStreak = LongestRun
       /\ commitDates # <<>> =>
            /\ r.MaxStart = At(FirstLongestStart, 0)
            /\ r.MaxEnd = At(FirstLongestStart + LongestRun - 1, 0)
            /\ DaysBetween(r.MaxEnd, r.MaxStart) = r.MaxStreak - 1
       /\ commitDates = JanExample =>
            r.MaxStreak = 3 /\ r.MaxStart = At(0, 0) /\ r.MaxEnd = At(2, 0)
       /\ commitDates = MarExample => r.MaxStreak = 1

\* The longest run is not the first one: it replaced the maximum.
C8_Witness ==
  /\ info # <<>>
  /\ info[1].MaxStreak = 2
  /\ DayOf(info[1].MaxStart) > DayOf(info[1].CommitDates[1])

\* The most recent active day.
LastDay == CHOOSE d \in InputDays : \A e \in InputDays : e <= d

\* C9: CurrentStreak is non-zero only when the most recent active day is
\* today or yesterday; for every other most recent day, before or after
\* today, CurrentStreak is 0 and CurrentStart is unset.
C9_ActiveOnlyRecent ==
  (info # <<>> /\ commitDates # <<>>) =>
    LET r == info[1]
        today == DayOf(now)
    IN /\ r.CurrentStreak # 0 => LastDay \in {today, today - 1}
       /\ LastDay \notin {today, today - 1} =>
            (r.CurrentStreak = 0 /\ r.CurrentStart = ZeroTime)

\* C10: a second call of calculateStreaks on the same activity set, listed
\* in any order, with the same today returns the StreakInfo of the first.
C10_SameResult ==
  (info # <<>> /\ firstInfo # <<>>) => info = firstInfo

\* The second call was made on a reordered input in which two instants fall
\* on one day.
C10_Witness ==
  /\ info # <<>> /\ firstInfo # <<>> /\ reordered
  /\ Cardinality(InputDays) < Cardinality({commitDates[i] : i \in DOMAIN commitDates})
  /\ info[1].MaxStreak >= 2

\* ------------------------------------------------ claims, forks and merges
\* The repositories whose fork flag is set.
Forks == {w \in DOMAIN repos : repos[w].fork = "true"}

\* getCommitActivityFull has listed the repositories and run its fan-out to
\* the end.
FullScanFinished ==
  /\ entry = "GetCommitActivity"
  /\ "getCommitActivityFull" \in {calls[i] : i \in DOMAIN calls}
  /\ pc \in {"drain", "done"}
  /\ retErr # RepositoriesErr

\* C11 as claimed: in both fan-outs no goroutine is started for a fork.
C11_ForksNeverSubmitted ==
  \A w \in Workers : w \in Forks => wpc[w] = "none"

\* C11, amended: GetLanguages never starts a goroutine for a fork, so a fork
\* acquires no slot, is not fetched and adds nothing to languages;
\* getCommitActivityFull starts one for every listed repository, forks
\* included.
C11_ForksSkippedByLanguages ==
  /\ entry = "GetLanguages" =>
       /\ \A w \in Workers : w \in Forks =>
            (wpc[w] = "none" /\ wres[w] = <<>> /\ werr[w] = Nil)
       /\ wg <= Cardinality(DOMAIN repos \ Forks)
       /\ \A l \in DOMAIN languages :
            languages[l] <= SumBytes(l, DOMAIN repos \ Forks)
  /\ FullScanFinished => \A w \in Workers : wpc[w] = "exit"

\* GetLanguages has returned; a fork was listed with a repository that is
\* no fork, and only the latter is in the map.
C11_Witness ==
  /\ entry = "GetLanguages" /\ pc = "done"
  /\ Forks # {} /\ DOMAIN repos \ Forks # {}
  /\ retErr = Nil
  /\ retVal = SumLanguages(DOMAIN repos \ Forks)

\* The goroutines that have added their map to languages.
Merged ==
  {w \in Workers : wpc[w] \in {"release", "wgdone", "exit"} /\ werr[w] = Nil}

\* Every value of acc is kept or grown in acc2.
GrowsTo(acc, acc2) ==
  \A l \in DOMAIN acc : l \in DOMAIN acc2 /\ acc2[l] >= acc[l]

\* C12: the map GetLanguages accumulates depends on which goroutines have
\* merged and not on the order in which they did: in every state it is the
\* per-language sum over the goroutines that have merged, so that whatever
\* the interleaving the returned map is the sum over the repositories whose
\* fetch succeeded; no value is negative, and no step of the fan-out
\* removes a language or lowers its value.
C12_OrderIndependent ==
  /\ [](entry = "GetLanguages" =>
          /\ languages = SumLanguages(Merged)
          /\ \A l \in DOMAIN languages : languages[l] >= 0
          /\ pc = "done" => Merged = Workers \ (Forks \cup Failed))
  /\ [][GrowsTo(languages, languages')]_vars

\* A goroutine submitted later has merged while one submitted before it
\* still waits for the mutex.
C12_Witness ==
  /\ entry = "GetLanguages"
  /\ \E w, v \in Workers :
       /\ w < v
       /\ wpc[w] = "lock"
       /\ v \in Merged
       /\ languages = repos[v].langs

\* ------------------------------------------------ claims, the full scan
\* The days on which the sequence of instants ds has an instant.
DaysOf(ds) == {FormatDate(ds[i]) : i \in DOMAIN ds}

\* The pages of repository w that were fetched before a request failed.
PagesFetched(w) ==
  IF wfail[w] = 0 THEN repos[w].commits
  ELSE SubSeq(repos[w].commits, 1, wfail[w] - 1)

\* getCommitActivityFull has returned the result of its fan-out.
FullScanReturned == FullScanFinished /\ pc = "done"

\* C13 as claimed: the days returned by the full scan are those of the
\* repositories none of whose page requests failed.
C13_FailedRepoContributesNothing ==
  FullScanReturned =>
    DaysOf(retVal) =
      UNION {DaysOf(Concat(repos[w].commits)) : w \in {v \in Workers : wfail[v] = 0}}

\* C13, amended: a repository whose commit fetch fails on a page
\* contributes the days of the pages fetched before that page (none if the
\* first request fails), and the days of every other repository are merged
\* all the same: the full scan returns one instant for each day of the
\* pages that were fetched, and no other.
C13_FailedRepoKeepsEarlierPages ==
  FullScanReturned =>
    /\ DaysOf(retVal) = UNION {DaysOf(Concat(PagesFetched(w))) : w \in Workers}
    /\ dateSet = DaysOf(retVal)
    /\ Cardinality(dateSet) = Len(retVal)
    /\ \A w \in Workers : wres[w] = Concat(PagesFetched(w))

\* The full scan has returned; the request for the second page of a
\* repository failed, and a day of its first page, which no other fetched
\* page has, is in the result.
C13_Witness ==
  /\ FullScanReturned
  /\ \E w \in Workers :
       /\ wfail[w] = 2
       /\ \E d \in DaysOf(repos[w].commits[1]) :
            /\ d \in DaysOf(retVal)
            /\ \A v \in Workers \ {w} : d \notin DaysOf(Concat(PagesFetched(v)))
       /\ \E v \in Workers \ {w} : wfail[v] = 0 /\ wres[v] # <<>>

\* C14: whenever the repository list of the full scan was fetched,
\* whichever page requests of whichever repositories fail, no goroutine
\* records an error, firstErr stays nil, getCommitActivityFull and
\* GetCommitActivity return a nil error, and Calculate does not abort.
C14_FullScanNeverFails ==
  FullScanFinished =>
    /\ \A w \in Workers : werr[w] = Nil /\ wpc[w] # "senderr"
    /\ errChan = <<>> /\ firstErr = Nil
    /\ retErr = Nil
    /\ outcome # "aborted"

\* The first page request of every one of two repositories failed, the
\* full scan returned no dates, and Calculate went on.
C14_Witness ==
  /\ FullScanReturned
  /\ Cardinality(Workers) >= 2
  /\ \A w \in Workers : wfail[w] = 1
  /\ retVal = <<>>
  /\ outcome = "resumed"

\* ---------------------------------------------------------------- float64
\* The float64 values the language percentages take are not negative and
\* far from the subnormal and overflow ranges: such a value is NaN, +Inf or
\* n * 2^exp with n below 2^53. n is kept as its binary digits, least
\* significant first and without leading zeros.
SignificandBits == 53

RECURSIVE TrimBits(_)
\* x without its leading zeros.
TrimBits(x) ==
  IF x = <<>> \/ x[Len(x)] = 1 THEN x ELSE TrimBits(SubSeq(x, 1, Len(x) - 1))

RECURSIVE AddBits(_, _, _)
\* x + y + c
AddBits(x, y, c) ==
  IF x = <<>> /\ y = <<>> THEN (IF c = 0 THEN <<>> ELSE <<c>>)
  ELSE LET a == IF x = <<>> THEN 0 ELSE Head(x)
           b == IF y = <<>> THEN 0 ELSE Head(y)
           t == a + b + c
       IN <<t % 2>> \o AddBits(IF x = <<>> THEN x ELSE Tail(x),
                               IF y = <<>> THEN y ELSE Tail(y), t \div 2)

RECURSIVE SubBits(_, _, _)
\* x - y - c, for x >= y + c
SubBits(x, y, c) ==
  IF x = <<>> THEN <<>>
  ELSE LET b == IF y = <<>> THEN 0 ELSE Head(y)
           t == Head(x) - b - c
       IN <<t % 2>> \o SubBits(Tail(x), IF y = <<>> THEN y ELSE Tail(y),
                               IF t < 0 THEN 1 ELSE 0)

RECURSIVE LessBits(_, _)
\* x < y, for x and y without leading zeros
LessBits(x, y) ==
  IF Len(x) # Len(y) THEN Len(x) < Len(y)
  ELSE IF x = <<>> THEN FALSE
  ELSE IF x[Len(x)] # y[Len(y)] THEN x[Len(x)] < y[Len(y)]
  ELSE LessBits(TrimBits(SubSeq(x, 1, Len(x) - 1)),
                TrimBits(SubSeq(y, 1, Len(y) - 1)))

\* x * 2^k
ShiftLeft(x, k) == IF x = <<>> THEN x ELSE [i \in 1..k |-> 0] \o x

\* The binary digits of the natural number n.
RECURSIVE BitsOf(_)
BitsOf(n) == IF n = 0 THEN <<>> ELSE <<n % 2>> \o BitsOf(n \div 2)

\* The float64 zero.
FloatZero == [class |-> "finite", n |-> <<>>, exp |-> 0]

\* What a division by zero gives: 0/0 and x/0 for x > 0.
FloatNaN == [class |-> "NaN", n |-> <<>>, exp |-> 0]
FloatInf == [class |-> "+Inf", n |-> <<>>, exp |-> 0]

\* Round to nearest, ties to even: the float64 nearest to n * 2^exp, where
\* sticky tells that the exact value lies above n * 2^exp by less than
\* 2^exp.
RoundFloat(n, exp, sticky) ==
  LET k == Len(n) - SignificandBits
  IN IF k <= 0 THEN [n |-> n, exp |-> exp]
     ELSE LET high == SubSeq(n, k + 1, Len(n))
              half == n[k] = 1
              rest == sticky \/ \E i \in 1..(k - 1) : n[i] = 1
              up == half /\ (rest \/ high[1] = 1)
              r == IF up THEN AddBits(high, <<1>>, 0) ELSE high
          IN IF Len(r) > SignificandBits
             THEN [n |-> Tail(r), exp |-> exp + k + 1]
             ELSE [n |-> r, exp |-> exp + k]

RECURSIVE FloatNorm(_)
\* The one representation of the value of f in which n is odd.
FloatNorm(f) ==
  IF f.n = <<>> THEN FloatZero
  ELSE IF Head(f.n) = 1 THEN [class |-> "finite", n |-> f.n, exp |-> f.exp]
  ELSE FloatNorm([n |-> Tail(f.n), exp |-> f.exp + 1])

RECURSIVE DivBits(_, _, _, _)
\* The digits of a quotient by t, one more than a float64 holds: acc are
\* the digits found so far, p of them after the binary point, and r is
\* twice the remainder.
DivBits(r, t, acc, p) ==
  IF Len(acc) > SignificandBits
  THEN [n |-> acc, exp |-> -p, sticky |-> r # 0]
  ELSE LET bit == r \div t
       IN DivBits(2 * (r % t), t,
                  IF acc = <<>> /\ bit = 0 THEN acc ELSE <<bit>> \o acc, p + 1)

\* float64(b) / float64(t), for integers b >= 0 and t >= 0 below 2^53
FloatDiv(b, t) ==
  IF t = 0 THEN (IF b = 0 THEN FloatNaN ELSE FloatInf)
  ELSE IF b = 0 THEN FloatZero
  ELSE LET q == DivBits(2 * (b % t), t, BitsOf(b \div t), 0)
       IN FloatNorm(RoundFloat(q.n, q.exp, q.sticky))

RECURSIVE MulBits(_, _)
\* x * y
MulBits(x, y) ==
  IF y = <<>> THEN <<>>
  ELSE AddBits(IF Head(y) = 1 THEN x ELSE <<>>,
               ShiftLeft(MulBits(x, Tail(y)), 1), 0)

\* f * float64(m), for a natural number m > 0 below 2^53
FloatMul(f, m) ==
  IF f.class # "finite" THEN f
  ELSE FloatNorm(RoundFloat(TrimBits(MulBits(f.n, BitsOf(m))), f.exp, FALSE))

\* f + g, exactly: the sum as a real number, which need not be a float64.
ExactAdd(f, g) ==
  LET e == IF f.exp < g.exp THEN f.exp ELSE g.exp
  IN [n |-> TrimBits(AddBits(ShiftLeft(f.n, f.exp - e),
                             ShiftLeft(g.n, g.exp - e), 0)),
      exp |-> e]

\* |x - m| < 2^(-k), for a real x = n * 2^exp and a natural number m
Within(x, m, k) ==
  LET e == IF x.exp < 0 THEN x.exp ELSE 0
      a == ShiftLeft(x.n, x.exp - e)
      b == ShiftLeft(BitsOf(m), 0 - e)
      d == TrimBits(IF LessBits(a, b) THEN SubBits(b, a, 0)
                    ELSE SubBits(a, b, 0))
  IN d = <<>> \/ Len(d) <= (0 - k) - e

\* x = m, for a real x = n * 2^exp and a natural number m
ExactlyNat(x, m) ==
  LET e == IF x.exp < 0 THEN x.exp ELSE 0
  IN ShiftLeft(x.n, x.exp - e) = ShiftLeft(BitsOf(m), 0 - e)

\* ------------------------------------------------------- GetLanguageStats
\* stats.go 309: the factor 100.0
PercentScale == 100

\* DescendingOrders that leaves the elements in any order.
AnyOrders(key, S) == IterOrders(S)

RECURSIVE DescendingOrders(_, _)
\* sort.Slice with less(i, j) = key[i] > key[j] is not stable: the orders in
\* which it may leave the indices S, keys not increasing.
DescendingOrders(key, S) ==
  IF S = {} THEN {<<>>}
  ELSE LET top == {i \in S : \A j \in S : key[j] <= key[i]}
       IN UNION {{<<i>> \o o : o \in DescendingOrders(key, S \ {i})}
                   : i \in top}

RECURSIVE TotalOf(_, _)
\* stats.go 302-304: stats.TotalBytes += bytes, over the keys S
TotalOf(m, S) ==
  IF S = {} THEN 0
  ELSE LET k == CHOOSE x \in S : TRUE IN m[k] + TotalOf(m, S \ {k})

\* Percentage with the division unguarded.
PercentageUnguarded(bytes, total) ==
  FloatMul(FloatDiv(bytes, total), PercentScale)

\* stats.go 307-310: percentage := 0.0; if stats.TotalBytes > 0 { ... }
Percentage(bytes, total) ==
  IF total > 0 THEN FloatMul(FloatDiv(bytes, total), PercentScale)
  ELSE FloatZero

\* stats.go 297-323. order is the order in which the range loop of line 306
\* visits the map, perm what sort.Slice makes of the appended elements.
GetLanguageStats(langs, order, perm) ==
  LET total == TotalOf(langs, DOMAIN langs)
      appended == [i \in DOMAIN order |->
                     [Name |-> order[i], Bytes |-> langs[order[i]],
                      Percentage |-> Percentage(langs[order[i]], total)]]
  IN [Languages |-> langs,
      TotalBytes |-> total,
      TopLanguages |-> [i \in DOMAIN perm |-> appended[perm[i]]]]

\* The maps GetLanguageStats is given: byte counts of up to three languages.
LanguageNames == {"Go", "C", "Shell"}
LanguageMaps == UNION {[S -> 0..MaxBytes] : S \in SUBSET LanguageNames}

\* display: github.GetLanguageStats(stats.Languages)
CallGetLanguageStats ==
  /\ entry = "GetLanguageStats"
  /\ pc = "start"
  /\ \E order \in IterOrders(DOMAIN languages) :
       \E perm \in DescendingOrders([i \in DOMAIN order |-> languages[order[i]]],
                                    DOMAIN order) :
         retVal' = GetLanguageStats(languages, order, perm)
  /\ pc' = "done"
  /\ UNCHANGED <<cancelled, reportVars, streakVars, entry, maxWorkers, fullScan, calls,
                 dates, err, retErr, outcome, stratVars, fanVars>>

\* ----------------------------------------------- calculateTopRepositories
\* stats.go 267-268: the length TopRepositories is cut to
TopRepositoriesLimit == 5

\* stats.go 238-240, 247-249: Name and Stars are copied where the pointer
\* is not nil (<<>> is a nil pointer); the other fields play no part.
ToRepository(repo) ==
  [Name |-> IF repo.name = <<>> THEN "" ELSE repo.name[1],
   Stars |-> IF repo.stars = <<>> THEN 0 ELSE repo.stars[1],
   IsForked |-> FALSE]

\* stats.go 230-261: the loop that builds repoList
BuildRepoList(rs) ==
  LET kept == SelectSeq(rs, LAMBDA r : ~IsFork(r))
  IN [i \in DOMAIN kept |-> ToRepository(kept[i])]

\* stats.go 227-272: stats.TopRepositories. perm is what sort.Slice makes
\* of repoList.
calculateTopRepositories(rs, perm) ==
  LET repoList == BuildRepoList(rs)
      sorted == [i \in DOMAIN perm |-> repoList[perm[i]]]
  IN IF Len(sorted) > TopRepositoriesLimit
     THEN SubSeq(sorted, 1, TopRepositoriesLimit)
     ELSE sorted

\* stats.go 21-24: the UserStats Calculate starts from, with the fields it
\* and the report's functions write.
ZeroUserStats ==
  [Languages |-> EmptyMap,
   CurrentStreak |-> 0, MaxStreak |-> 0, CurrentStreakStart |-> ZeroTime,
   MaxStreakStart |-> ZeroTime, MaxStreakEnd |-> ZeroTime,
   TotalCommitDays |-> 0,
   MostActiveDay |-> "", MostActiveHour |-> 0, TopRepositories |-> <<>>]

\* The repository lists calculateTopRepositories is given: a repository has
\* its place in the list for a name.
StarKinds ==
  { [fork |-> "false", stars |-> <<1>>],
    [fork |-> "nil", stars |-> <<>>],
    [fork |-> "true", stars |-> <<2>>] }
StarRepoLists ==
  UNION {{[i \in 1..n |-> [name |-> <<i>>, fork |-> f[i].fork,
                            stars |-> f[i].stars]] : f \in [1..n -> StarKinds]}
           : n \in 0..MaxListed}

\* s.calculateTopRepositories(stats, repos), stats.go 60
CallCalculateTopRepositories ==
  /\ entry = "calculateTopRepositories"
  /\ pc = "start"
  /\ LET repoList == BuildRepoList(repos)
     IN \E perm \in DescendingOrders([i \in DOMAIN repoList |-> repoList[i].Stars],
                                     DOMAIN repoList) :
          stats' = [stats EXCEPT
                      !.TopRepositories = calculateTopRepositories(repos, perm)]
  /\ pc' = "done"
  /\ UNCHANGED <<cancelled, flags, repoCount, streakVars, callVars, stratVars, fanVars>>

\* ------------------------------------------------------------ getTopRepos
\* client.go 485, 659: the limit getTopRepos is called with
TopReposLimit == 5

\* ExchangeInner that exchanges nothing.
ExchangeInnerNever(rs, i, j) == rs

RECURSIVE ExchangeInner(_, _, _)
\* client.go 679-683: the loop over j, from j on
ExchangeInner(rs, i, j) ==
  IF j > Len(rs) THEN rs
  ELSE ExchangeInner(IF rs[j].Count > rs[i].Count
                     THEN [rs EXCEPT ![i] = rs[j], ![j] = rs[i]]
                     ELSE rs,
                     i, j + 1)

RECURSIVE ExchangeOuter(_, _)
\* client.go 678-684: the loop over i, from i on
ExchangeOuter(rs, i) ==
  IF i > Len(rs) THEN rs
  ELSE ExchangeOuter(ExchangeInner(rs, i, i + 1), i + 1)

\* client.go 672-690. order is the order in which the range loop of line
\* 674 visits the map.
getTopRepos(rc, limit, order) ==
  LET appended == [k \in DOMAIN order |->
                     [RepoName |-> order[k], Count |-> rc[order[k]]]]
      sorted == ExchangeOuter(appended, 1)
  IN IF Len(sorted) > limit THEN SubSeq(sorted, 1, limit) ELSE sorted

\* The maps getTopRepos is given. client.go 431-434 makes an entry the
\* first time a repository is met and counts from 1; a repository has for
\* a name its rank in the order in which the repositories were first met.
CountValues == {1, 2}
RepoCounts == UNION {[1..n -> CountValues] : n \in 0..MaxListed}

\* stats.TopRepos = getTopRepos(repoCount, 5), client.go 485
CallGetTopRepos ==
  /\ entry = "getTopRepos"
  /\ pc = "start"
  /\ \E order \in IterOrders(DOMAIN repoCount) :
       retVal' = getTopRepos(repoCount, TopReposLimit, order)
  /\ pc' = "done"
  /\ UNCHANGED <<cancelled, reportVars, streakVars, entry, maxWorkers, fullScan, calls,
                 dates, err, retErr, outcome, stratVars, fanVars>>

\* ---------------------------------------------- calculateActivityPatterns
\* time.Weekday: Sunday is 0. 2024-01-01, day number 0, is a Monday.
DaysPerWeek == 7
Weekday(t) == (DayOf(t) + 1) % DaysPerWeek

\* Weekday.String()
WeekdayString(d) ==
  <<"Sunday", "Monday", "Tuesday", "Wednesday", "Thursday", "Friday",
    "Saturday">>[d + 1]

RECURSIVE CountBy(_, _)
\* stats.go 203-206: the map counting the keys of the sequence ks
CountBy(ks, acc) ==
  IF ks = <<>> THEN acc
  ELSE CountBy(Tail(ks),
               MapPut(acc, Head(ks),
                      IF Head(ks) \in DOMAIN acc THEN acc[Head(ks)] + 1 ELSE 1))

RECURSIVE MostActive(_, _, _)
\* stats.go 208-215, 218-224: the range loop over a count map, visiting
\* its keys in the order given; best = [key, count] is replaced by a key of
\* strictly greater count.
MostActive(count, order, best) ==
  IF order = <<>> THEN best.key
  ELSE MostActive(count, Tail(order),
                  IF count[Head(order)] > best.count
                  THEN [key |-> Head(order), count |-> count[Head(order)]]
                  ELSE best)

\* stats.go 195-225. dayOrder and hourOrder are the orders in which the
\* range loops visit dayCount and hourCount.
calculateActivityPatterns(st, cds, dayOrder, hourOrder) ==
  IF Len(cds) = 0 THEN st
  ELSE LET dayCount == CountBy([i \in DOMAIN cds |-> Weekday(cds[i])], EmptyMap)
           hourCount == CountBy([i \in DOMAIN cds |-> Hour(cds[i])], EmptyMap)
       IN [st EXCEPT
             !.MostActiveDay =
                WeekdayString(MostActive(dayCount, dayOrder,
                                         [key |-> 0, count |-> 0])),
             !.MostActiveHour =
                MostActive(hourCount, hourOrder,
                           [key |-> st.MostActiveHour, count |-> 0])]

\* s.calculateActivityPatterns(stats, commitDates), stats.go 59
CallCalculateActivityPatterns ==
  /\ entry = "calculateActivityPatterns"
  /\ pc = "start"
  /\ \E dayOrder \in IterOrders({Weekday(commitDates[i]) : i \in DOMAIN commitDates}) :
       \E hourOrder \in IterOrders({Hour(commitDates[i]) : i \in DOMAIN commitDates}) :
         stats' = calculateActivityPatterns(stats, commitDates, dayOrder, hourOrder)
  /\ pc' = "done"
  /\ UNCHANGED <<cancelled, flags, repoCount, streakVars, callVars, stratVars, fanVars>>

\* ------------------------------------------- the report's pure functions
ReportEntries ==
  {"GetLanguageStats", "calculateTopRepositories", "getTopRepos",
   "calculateActivityPatterns"}

InitReport ==
  /\ entry \in ReportEntries
  /\ pc = "start"
  /\ languages \in (IF entry = "GetLanguageStats" THEN LanguageMaps
                    ELSE {EmptyMap})
  /\ repos \in (IF entry = "calculateTopRepositories" THEN StarRepoLists
                ELSE {<<>>})
  /\ stats = (IF entry \in {"calculateTopRepositories",
                             "calculateActivityPatterns"}
              THEN ZeroUserStats ELSE <<>>)
  /\ commitDates \in (IF entry = "calculateActivityPatterns" THEN InputDates
                      ELSE {<<>>})
  /\ now = 0 /\ info = <<>> /\ firstInfo = <<>> /\ reordered = FALSE
  /\ repoCount \in (IF entry = "getTopRepos" THEN RepoCounts ELSE {<<>>})
  /\ maxWorkers = 1 /\ fullScan = FALSE
  /\ calls = <<>> /\ dates = <<>> /\ err = Nil
  /\ yearsBack = 0 /\ page = 1 /\ accDates = <<>> /\ dateSet = {}
  /\ requests = <<>>
  /\ idx = 1 /\ wpc = <<>> /\ wres = <<>> /\ werr = <<>>
  /\ wfail = <<>> /\ merged = <<>>
  /\ sem = 0 /\ errChan = <<>> /\ recvd = 0 /\ mu = 0 /\ wg = 0
  /\ firstErr = Nil
  /\ retVal = <<>> /\ retErr = Nil /\ outcome = "pending"
  /\ flags = <<>>
  /\ cancelled = FALSE

NextReport ==
  \/ CallGetLanguageStats \/ CallCalculateTopRepositories
  \/ CallGetTopRepos \/ CallCalculateActivityPatterns

SpecReport == InitReport /\ [][NextReport]_vars

\* -------------------------------------------- claims, the report's functions
RECURSIVE ExactSum(_)
\* The sum of the percentages of the elements of tl, as a real number.
ExactSum(tl) ==
  IF tl = <<>> THEN FloatZero
  ELSE ExactAdd(Head(tl).Percentage, ExactSum(Tail(tl)))

LanguageStatsReturned == entry = "GetLanguageStats" /\ pc = "done"

\* C15 as claimed: with a positive total the percentages sum to 100.
C15_SumIsHundred ==
  (LanguageStatsReturned /\ retVal.TotalBytes > 0) =>
    ExactlyNat(ExactSum(retVal.TopLanguages), PercentScale)

\* C15, amended: GetLanguageStats returns one element for each language of
\* the map, each with the float64 value of bytes / total * 100 as its
\* percentage when the total is positive; these percentages sum to 100 up
\* to float64 rounding only (the sum is less than 2^-45 away from 100);
\* when the total is zero every percentage is 0 and nothing is divided.
C15_SumNearHundred ==
  LanguageStatsReturned =>
    LET tl == retVal.TopLanguages
        total == retVal.TotalBytes
    IN /\ total = TotalOf(languages, DOMAIN languages)
       /\ {tl[i].Name : i \in DOMAIN tl} = DOMAIN languages
       /\ Len(tl) = Cardinality(DOMAIN languages)
       /\ \A i \in DOMAIN tl : tl[i].Bytes = languages[tl[i].Name]
       /\ total > 0 =>
            /\ \A i \in DOMAIN tl :
                 tl[i].Percentage
                   = FloatMul(FloatDiv(tl[i].Bytes, total), PercentScale)
            /\ Within(ExactSum(tl), PercentScale, 45)
       /\ total = 0 => \A i \in DOMAIN tl : tl[i].Percentage = FloatZero

\* A map of one and two bytes: the percentages are 33.33333333333333 and
\* 66.66666666666666 and their sum is below 100.
C15_Witness ==
  /\ LanguageStatsReturned
  /\ retVal.TotalBytes = 3
  /\ {retVal.TopLanguages[i].Bytes : i \in DOMAIN retVal.TopLanguages} = {1, 2}
  /\ ~ExactlyNat(ExactSum(retVal.TopLanguages), PercentScale)
  /\ Within(ExactSum(retVal.TopLanguages), PercentScale, 45)

\* The repositories of the list that are not forks, and the stars
\* calculateTopRepositories reads from one.
Originals == {j \in DOMAIN repos : repos[j].fork # "true"}
StarsOf(j) == IF repos[j].stars = <<>> THEN 0 ELSE repos[j].stars[1]

\* C16: TopRepositories holds repositories of the list that are not forks,
\* none twice; its length is the smaller of 5 and their number; the stars
\* do not increase along it; and no repository left out that is not a fork
\* has more stars than one that is in it.
C16_TopRepositories ==
  (entry = "calculateTopRepositories" /\ pc = "done") =>
    LET top == stats.TopRepositories
        taken == {j \in Originals : \E i \in DOMAIN top : top[i].Name = j}
    IN /\ \A i \in DOMAIN top :
            /\ top[i].Name \in Originals
            /\ top[i].Stars = StarsOf(top[i].Name)
            /\ ~top[i].IsForked
       /\ \A i, k \in DOMAIN top : i # k => top[i].Name # top[k].Name
       /\ Len(top) = IF Cardinality(Originals) < 5 THEN Cardinality(Originals)
                     ELSE 5
       /\ \A i, k \in DOMAIN top : i < k => top[i].Stars >= top[k].Stars
       /\ \A j \in Originals \ taken : \A k \in taken : StarsOf(j) <= StarsOf(k)

\* Six repositories that are not forks, with and without stars: five are
\* taken and the one left out has no star.
C16_Witness ==
  /\ entry = "calculateTopRepositories" /\ pc = "done"
  /\ Cardinality(Originals) = 6
  /\ Len(stats.TopRepositories) = 5
  /\ \E j, k \in Originals : StarsOf(j) = 0 /\ StarsOf(k) = 1
  /\ stats.TopRepositories[1].Stars = 1
  /\ stats.TopRepositories[5].Stars = 0

TopReposReturned == entry = "getTopRepos" /\ pc = "done"

\* C17 as claimed: pairs of equal count come in the order in which their
\* repositories were first met.
C17_TiesFirstSeen ==
  TopReposReturned =>
    \A i, k \in DOMAIN retVal :
      (i < k /\ retVal[i].Count = retVal[k].Count)
        => retVal[i].RepoName < retVal[k].RepoName

\* C17, amended: getTopRepos returns the smaller of limit and the number of
\* repositories counted, each pair a repository of the map with its count
\* and none twice, in non-increasing order of count, and no repository
\* left out has a greater count than one returned; pairs of equal count
\* come in an order the iteration over the map decides, which need not be
\* the order in which the repositories were first met.
C17_TopReposByCount ==
  TopReposReturned =>
    LET names == {retVal[i].RepoName : i \in DOMAIN retVal}
        n == Cardinality(DOMAIN repoCount)
    IN /\ Len(retVal) = IF n < TopReposLimit THEN n ELSE TopReposLimit
       /\ \A i \in DOMAIN retVal :
            /\ retVal[i].RepoName \in DOMAIN repoCount
            /\ retVal[i].Count = repoCount[retVal[i].RepoName]
       /\ Cardinality(names) = Len(retVal)
       /\ \A i, k \in DOMAIN retVal : i < k => retVal[i].Count >= retVal[k].Count
       /\ \A x \in DOMAIN repoCount \ names :
            \A y \in names : repoCount[x] <= repoCount[y]

\* Six repositories were counted; five are returned, and of two with the
\* same count the one met later comes first.
C17_Witness ==
  /\ TopReposReturned
  /\ Cardinality(DOMAIN repoCount) > TopReposLimit
  /\ Len(retVal) = TopReposLimit
  /\ retVal[1].Count > retVal[TopReposLimit].Count
  /\ \E i, k \in DOMAIN retVal :
       /\ i < k /\ retVal[i].Count = retVal[k].Count
       /\ retVal[i].RepoName > retVal[k].RepoName

RECURSIVE FirstSeen(_, _)
\* The first key of the sequence ks whose count is the greatest.
FirstSeen(ks, count) ==
  IF \A k \in DOMAIN count : count[k] <= count[Head(ks)] THEN Head(ks)
  ELSE FirstSeen(Tail(ks), count)

\* C18: the weekday and the hour reported are those of a bucket with the
\* greatest count, and of the buckets with the greatest count the one whose
\* first instant comes first in the input, so that the report is a
\* function of the input.
C18_FirstSeenWins ==
  (entry = "calculateActivityPatterns" /\ pc = "done" /\ commitDates # <<>>) =>
    LET days == [i \in DOMAIN commitDates |-> Weekday(commitDates[i])]
        hours == [i \in DOMAIN commitDates |-> Hour(commitDates[i])]
    IN /\ stats.MostActiveDay
            = WeekdayString(FirstSeen(days, CountBy(days, EmptyMap)))
       /\ stats.MostActiveHour = FirstSeen(hours, CountBy(hours, EmptyMap))

\* ------------------------------------------------------------ config.Load
\* config.go 66: the bounds of the worker count; config.go 29: its default
MinWorkers == 1
MaxWorkersAllowed == 50
DefaultWorkers == 10

\* config.go 59, 63, 67: the errors of Load
TokenRequired == [kind |-> "GitHub token is required", repo |-> 0]
InvalidFormat == [kind |-> "invalid format", repo |-> 0]
WorkersOutOfRange == [kind |-> "workers must be between 1 and 50", repo |-> 0]

\* ValidWorkers that accepts every count.
ValidWorkersAny(n) == TRUE

\* config.go 66: cfg.MaxWorkers < 1 || cfg.MaxWorkers > 50, negated
ValidWorkers(n) == ~(n < MinWorkers \/ n > MaxWorkersAllowed)

\* config.go 20-71: Load, on the command line and environment f. cfg is
\* <<>> where Load returns nil.
Load(f) ==
  LET Token == IF f.token = "" THEN f.env ELSE f.token
  IN IF Token = "" THEN [cfg |-> <<>>, err |-> TokenRequired]
     ELSE IF f.format # "table" /\ f.format # "json"
     THEN [cfg |-> <<>>, err |-> InvalidFormat]
     ELSE IF ~ValidWorkers(f.workers)
     THEN [cfg |-> <<>>, err |-> WorkersOutOfRange]
     ELSE [cfg |-> [Token |-> Token, Username |-> f.user,
                    FullScan |-> f.full, Format |-> f.format,
                    MaxWorkers |-> f.workers],
           err |-> Nil]

\* The command lines: --workers at and around its bounds and at its default,
\* --token and GITHUB_TOKEN given or not, --format, --user, --full.
AllFlags ==
  [workers : {MinWorkers - 1, MinWorkers, DefaultWorkers, MaxWorkersAllowed,
              MaxWorkersAllowed + 1},
   token : {"", "t"}, env : {"", "e"},
   format : {"table", "json", "xml"},
   user : {"", "octocat"},
   full : BOOLEAN]

\* Every command line Load rejects; of those it accepts, the ones that
\* give the token by --token and ask for a table, and the ones that are
\* otherwise the default run for a named user.
FlagSets ==
  {f \in AllFlags :
     \/ Load(f).err # Nil
     \/ f.token = "t" /\ f.env = "" /\ f.format = "table"
     \/ f.workers = DefaultWorkers /\ f.user = "octocat" /\ ~f.full}

\* ------------------------------------------------------ main and Calculate
\* client.go 72, 86: the errors of GetAuthenticatedUser and GetUser
AuthenticatedUserErr == [kind |-> "authenticated user", repo |-> 0]
UserErr == [kind |-> "user", repo |-> 0]

\* fmt.Errorf(msg + ": %w", e)
Wrap(msg, e) == [kind |-> msg, repo |-> e.repo, cause |-> e.kind]

\* The *Config Load returned.
Cfg == Load(flags).cfg

\* main.go 18-22: config.Load(); on an error DisplayError and os.Exit(1)
MainLoad ==
  /\ pc = "load"
  /\ err' = Load(flags).err
  /\ pc' = IF Load(flags).err # Nil THEN "exit1" ELSE "newClient"
  /\ UNCHANGED <<cancelled, reportVars, streakVars, entry, maxWorkers, fullScan, calls,
                 dates, retVal, retErr, outcome, stratVars, fanVars>>

\* main.go 26: github.NewClient(ctx, cfg.Token, cfg.MaxWorkers);
\* client.go 65: maxWorkers: maxWorkers
MainNewClient ==
  /\ pc = "newClient"
  /\ maxWorkers' = Cfg.MaxWorkers
  /\ calls' = Append(calls, "NewClient")
  /\ pc' = "username"
  /\ UNCHANGED <<cancelled, reportVars, streakVars, entry, fullScan, dates, err, retVal,
                 retErr, outcome, stratVars, fanVars>>

\* main.go 28-42: an empty username is replaced by the authenticated
\* user's; on an error DisplayError and os.Exit(1)
MainUsername ==
  /\ pc = "username"
  /\ IF Cfg.Username # ""
     THEN pc' = "rateLimit" /\ UNCHANGED <<calls, err>>
     ELSE /\ calls' = Append(calls, "GetAuthenticatedUser")
          /\ \/ err' = AuthenticatedUserErr /\ pc' = "exit1"
             \/ err' = Nil /\ pc' = "rateLimit"
  /\ UNCHANGED <<cancelled, reportVars, streakVars, entry, maxWorkers, fullScan, dates,
                 retVal, retErr, outcome, stratVars, fanVars>>

\* main.go 44-46: checkRateLimit(client); an error is displayed as a
\* warning and the run goes on.
MainCheckRateLimit ==
  /\ pc = "rateLimit"
  /\ calls' = Append(calls, "CheckRateLimit")
  /\ pc' = "getUser"
  /\ UNCHANGED <<cancelled, reportVars, streakVars, entry, maxWorkers, fullScan, dates,
                 err, retVal, retErr, outcome, stratVars, fanVars>>

\* main.go 59, stats.go 20-29: Calculate(ctx, username, cfg.FullScan) makes
\* its UserStats and calls GetUser; on an error it returns nil and the error.
CalcGetUser ==
  /\ pc = "getUser"
  /\ fullScan' = Cfg.FullScan
  /\ calls' = Append(calls, "GetUser")
  /\ \/ /\ err' = UserErr
        /\ retVal' = <<>> /\ retErr' = UserErr
        /\ pc' = "returned"
        /\ UNCHANGED stats
     \/ /\ err' = Nil
        /\ stats' = ZeroUserStats
        /\ pc' = "getRepositories"
        /\ UNCHANGED <<retVal, retErr>>
  /\ UNCHANGED <<cancelled, flags, repoCount, streakVars, entry, maxWorkers, dates,
                 outcome, stratVars, fanVars>>

\* The repository lists GetRepositories answers with, each repository with
\* its place in the list for a name.
NamedRepoLists ==
  {[i \in DOMAIN rs |-> [name |-> <<i>>, fork |-> rs[i].fork,
                         langs |-> rs[i].langs, stars |-> rs[i].stars,
                         commits |-> rs[i].commits]] : rs \in RepoLists}

\* stats.go 33-36: GetRepositories; on an error Calculate returns nil and
\* the wrapped error.
CalcGetRepositories ==
  /\ pc = "getRepositories"
  /\ calls' = Append(calls, "GetRepositories")
  /\ \/ /\ err' = RepositoriesErr
        /\ retVal' = <<>>
        /\ retErr' = Wrap("failed to get repositories", RepositoriesErr)
        /\ pc' = "returned"
        /\ UNCHANGED repos
     \/ /\ err' = Nil
        /\ repos' \in NamedRepoLists
        /\ pc' = "getLanguages"
        /\ UNCHANGED <<retVal, retErr>>
  /\ UNCHANGED <<cancelled, reportVars, streakVars, entry, maxWorkers, fullScan, dates,
                 outcome, stratVars, idx, wpc, wres, werr, wfail, merged, sem,
                 errChan, recvd, mu, wg, languages, firstErr>>

\* stats.go 39-44: GetLanguages(repos) has run its fan-out: the fetches of
\* the repositories F failed, languages is the sum over the other
\* repositories that are no forks, and the error is one of those recorded.
\* Calculate keeps the map whether or not there is an error.
CalcGetLanguages ==
  /\ pc = "getLanguages"
  /\ calls' = Append(calls, "GetLanguages")
  /\ \E F \in SUBSET {w \in DOMAIN repos : ~IsFork(repos[w])} :
       \E e \in (IF F = {} THEN {Nil} ELSE {LanguagesErr(w) : w \in F}) :
         /\ wpc' = [w \in DOMAIN repos |->
                      IF IsFork(repos[w]) THEN "none" ELSE "exit"]
         /\ werr' = [w \in DOMAIN repos |->
                       IF w \in F THEN LanguagesErr(w) ELSE Nil]
         /\ languages' =
              SumLanguages({w \in DOMAIN repos : ~IsFork(repos[w])} \ F)
         /\ firstErr' = e
         /\ err' = e
         /\ IF LanguagesAborts(e)
            THEN /\ retVal' = <<>>
                 /\ retErr' = Wrap("failed to get languages", e)
                 /\ pc' = "returned"
                 /\ UNCHANGED stats
            ELSE /\ stats' = [stats EXCEPT !.Languages = languages']
                 /\ pc' = "getCommitActivity"
                 /\ UNCHANGED <<retVal, retErr>>
  /\ UNCHANGED <<cancelled, flags, repoCount, streakVars, entry, maxWorkers, fullScan,
                 dates, outcome, stratVars, repos, idx, wres, wfail, merged, sem,
                 errChan, recvd, mu, wg>>

\* What GetCommitActivity may return: dates with a nil error, or no dates
\* and the error of the fallback strategy it ran (client.go 162-172).
ActivityResults == {<<>>, <<At(59, 0)>>, <<At(59, 23), At(58, 0)>>}
CommitActivityOutcomes(full) ==
  {[dates |-> ds, err |-> Nil] : ds \in ActivityResults}
    \cup {[dates |-> <<>>,
           err |-> IF full THEN RepositoriesErr ELSE EventsErr]}

\* stats.go 46-49: GetCommitActivity; on an error Calculate returns nil and
\* the wrapped error.
CalcGetCommitActivity ==
  /\ pc = "getCommitActivity"
  /\ calls' = Append(calls, "GetCommitActivity")
  /\ \E r \in CommitActivityOutcomes(fullScan) :
       /\ err' = r.err
       /\ IF CommitActivityAborts(r.err)
          THEN /\ retVal' = <<>>
               /\ retErr' = Wrap("failed to get commit activity", r.err)
               /\ pc' = "returned"
               /\ UNCHANGED commitDates
          ELSE /\ commitDates' = r.dates
               /\ pc' = "report"
               /\ UNCHANGED <<retVal, retErr>>
  /\ UNCHANGED <<cancelled, reportVars, now, info, firstInfo, reordered, entry,
                 maxWorkers, fullScan, dates, outcome, stratVars, fanVars>>

\* stats.go 51-62: the streaks, the activity patterns and the top
\* repositories; Calculate returns stats and nil.
CalcReport ==
  /\ pc = "report"
  /\ \E order \in IterOrders(DOMAIN BuildDateSet(commitDates, EmptyMap)) :
     \E dayOrder \in IterOrders({Weekday(commitDates[i]) : i \in DOMAIN commitDates}) :
     \E hourOrder \in IterOrders({Hour(commitDates[i]) : i \in DOMAIN commitDates}) :
     \E perm \in DescendingOrders(
                   [i \in DOMAIN BuildRepoList(repos) |->
                      BuildRepoList(repos)[i].Stars],
                   DOMAIN BuildRepoList(repos)) :
       LET streakInfo == calculateStreaks(commitDates, now, order)
           withStreaks ==
             [stats EXCEPT
                !.CurrentStreak = streakInfo.CurrentStreak,
                !.MaxStreak = streakInfo.MaxStreak,
                !.CurrentStreakStart = streakInfo.CurrentStart,
                !.MaxStreakStart = streakInfo.MaxStart,
                !.MaxStreakEnd = streakInfo.MaxEnd,
                !.TotalCommitDays = Len(streakInfo.CommitDates)]
           withPatterns ==
             calculateActivityPatterns(withStreaks, commitDates, dayOrder,
                                       hourOrder)
       IN /\ info' = <<streakInfo>>
          /\ stats' = [withPatterns EXCEPT
                         !.TopRepositories =
                            calculateTopRepositories(repos, perm)]
          /\ retVal' = stats'
  /\ retErr' = Nil
  /\ pc' = "returned"
  /\ UNCHANGED <<cancelled, flags, repoCount, commitDates, now, firstInfo, reordered,
                 entry, maxWorkers, fullScan, calls, dates, err, outcome,
                 stratVars, fanVars>>

\* main.go 71: the error of formatter.Display
DisplayErr == [kind |-> "display", repo |-> 0]

\* CalculateFailed that takes every return of Calculate for a success.
CalculateFailedNever(e) == FALSE

\* main.go 62: if err != nil
CalculateFailed(e) == e # Nil

\* main.go 62-73: on an error of Calculate DisplayError and os.Exit(1);
\* otherwise the report is displayed, and main returns unless that fails.
MainDisplay ==
  /\ pc = "returned"
  /\ IF CalculateFailed(retErr)
     THEN err' = retErr /\ pc' = "exit1" /\ UNCHANGED calls
     ELSE /\ calls' = Append(calls, "Display")
          /\ \/ err' = Nil /\ pc' = "exit0"
             \/ err' = DisplayErr /\ pc' = "exit1"
  /\ UNCHANGED <<cancelled, reportVars, streakVars, entry, maxWorkers, fullScan, dates,
                 retVal, retErr, outcome, stratVars, fanVars>>

\* time.Now() of the run.
MainNow == {At(59, 9)}

InitMain ==
  /\ entry = "main"
  /\ pc = "load"
  /\ flags \in FlagSets
  /\ now \in MainNow
  /\ commitDates = <<>> /\ info = <<>> /\ firstInfo = <<>>
  /\ reordered = FALSE
  /\ maxWorkers = 0 /\ fullScan = FALSE
  /\ calls = <<>> /\ dates = <<>> /\ err = Nil
  /\ yearsBack = 0 /\ page = 1 /\ accDates = <<>> /\ dateSet = {}
  /\ requests = <<>>
  /\ repos = <<>> /\ idx = 1 /\ wpc = <<>> /\ wres = <<>> /\ werr = <<>>
  /\ wfail = <<>> /\ merged = <<>>
  /\ sem = 0 /\ errChan = <<>> /\ recvd = 0 /\ mu = 0 /\ wg = 0
  /\ languages = EmptyMap /\ firstErr = Nil
  /\ retVal = <<>> /\ retErr = Nil /\ outcome = "pending"
  /\ stats = <<>> /\ repoCount = <<>>
  /\ cancelled = FALSE

NextMain ==
  \/ MainLoad \/ MainNewClient \/ MainUsername \/ MainCheckRateLimit
  \/ CalcGetUser \/ CalcGetRepositories \/ CalcGetLanguages
  \/ CalcGetCommitActivity \/ CalcReport \/ MainDisplay

SpecMain == InitMain /\ [][NextMain]_vars

\* ------------------------------------------------- claims, main and Calculate
\* The calls made so far.
Called == {calls[i] : i \in DOMAIN calls}

\* The calls that run a fan-out.
FanOutCalls == {"GetLanguages", "GetCommitActivity"}

\* C19: with a worker count below 1 or above 50 Load fails, main exits
\* with status 1 and makes no client, so that it calls nothing; and in a
\* run that makes a client the client's maxWorkers, the capacity of the
\* gate of each of its fan-outs, is the worker count and lies between 1
\* and 50, the client being made before any fan-out is called.
C19_WorkersInRange ==
  /\ (flags.workers < 1 \/ flags.workers > 50) =>
       /\ pc \in {"load", "exit1"}
       /\ calls = <<>>
       /\ pc = "exit1" => err \in {TokenRequired, InvalidFormat,
                                   WorkersOutOfRange}
  /\ "NewClient" \in Called =>
       /\ calls[1] = "NewClient"
       /\ maxWorkers = flags.workers
       /\ maxWorkers >= 1 /\ maxWorkers <= 50
  /\ Called \cap FanOutCalls # {} => "NewClient" \in Called

\* 51 workers were asked for on a command line that is otherwise valid:
\* the run is over with status 1 and nothing was called.
C19_Witness ==
  /\ entry = "main"
  /\ flags.workers = 51 /\ flags.token = "t" /\ flags.format = "json"
  /\ pc = "exit1"
  /\ err = WorkersOutOfRange
  /\ calls = <<>>

\* GetLanguages returned an error to Calculate.
LanguagesFailed == entry = "main" /\ firstErr # Nil

\* C20: when GetLanguages returns an error, Calculate keeps the partial
\* map it returned in the report and calls GetCommitActivity next; it
\* returns no error but that of GetCommitActivity, and if that call
\* succeeds it returns the report, with the partial map, the streaks and
\* the top repositories, and a nil error.
C20_LanguagesErrorIsAdvisory ==
  LanguagesFailed =>
    LET partial == SumLanguages({w \in DOMAIN repos : repos[w].fork # "true"}
                                  \ Failed)
    IN /\ pc # "getLanguages"
       /\ stats.Languages = partial
       /\ pc = "getCommitActivity" => retVal = <<>> /\ retErr = Nil
       /\ pc \in {"report", "returned", "exit0", "exit1"} =>
            /\ Len(calls) >= 2
            /\ \E i \in DOMAIN calls :
                 /\ i < Len(calls)
                 /\ calls[i] = "GetLanguages"
                 /\ calls[i + 1] = "GetCommitActivity"
       /\ pc \in {"returned", "exit0", "exit1"} =>
            IF info = <<>>
            THEN /\ retVal = <<>>
                 /\ retErr \in {Wrap("failed to get commit activity", e)
                                  : e \in {RepositoriesErr, EventsErr}}
            ELSE /\ retErr = Nil
                 /\ retVal = stats
                 /\ retVal.MaxStreak = info[1].MaxStreak
                 /\ retVal.CurrentStreak = info[1].CurrentStreak
                 /\ retVal.TotalCommitDays = Len(info[1].CommitDates)
                 /\ Len(retVal.TopRepositories)
                      = Cardinality({w \in DOMAIN repos : repos[w].fork # "true"})

\* The fetch of one of two repositories failed; the report was displayed
\* with the languages of the other, a streak and both repositories.
C20_Witness ==
  /\ LanguagesFailed
  /\ pc = "exit0"
  /\ Cardinality(Failed) = 1
  /\ DOMAIN retVal.Languages # {}
  /\ retVal.MaxStreak = 2
  /\ Len(retVal.TopRepositories) = 2

\* Calculate has returned because its GetUser or its GetRepositories failed:
\* that call is the last one made.
ProfileFetchFailed ==
  /\ entry = "main" /\ pc = "returned"
  /\ calls # <<>> /\ calls[Len(calls)] \in {"GetUser", "GetRepositories"}

\* The errors Calculate returns when GetUser or GetRepositories fails
\* (stats.go 28, 35).
ProfileErrs == {UserErr, Wrap("failed to get repositories", RepositoriesErr)}

\* The calls Calculate makes after GetRepositories, and the display.
LaterCalls == {"GetLanguages", "GetCommitActivity", "Display"}

\* C21: if GetUser or GetRepositories fails, Calculate returns nil and an
\* error, having called neither GetLanguages nor GetCommitActivity; and a
\* run whose Calculate returned that error never calls them afterwards,
\* displays no report and ends with status 1, never with status 0.
C21_ProfileFailureIsFatal ==
  /\ ProfileFetchFailed =>
       /\ retVal = <<>>
       /\ retErr \in ProfileErrs
       /\ info = <<>>
  /\ (entry = "main" /\ retErr \in ProfileErrs) =>
       /\ pc \in {"returned", "exit1"}
       /\ retVal = <<>>
       /\ Called \cap LaterCalls = {}
       /\ calls[Len(calls)] = (IF retErr = UserErr THEN "GetUser"
                               ELSE "GetRepositories")
       /\ pc = "exit1" => err = retErr

\* The repository list could not be fetched after the user was found:
\* the run is over with status 1 and the wrapped error.
C21_Witness ==
  /\ entry = "main" /\ pc = "exit1"
  /\ retErr = Wrap("failed to get repositories", RepositoriesErr)
  /\ err = retErr
  /\ "GetUser" \in Called /\ "GetRepositories" \in Called
  /\ stats # <<>> /\ retVal = <<>>

\* ------------------------------------------- cancellation and termination
\* client.go 54-67: the Client keeps the ctx its caller gave it, and the
\* caller may cancel that context at any moment of a fan-out.
Cancel ==
  /\ pc = "fanout"
  /\ ~cancelled
  /\ cancelled' = TRUE
  /\ UNCHANGED <<reportVars, streakVars, callVars, stratVars, fanVars, pc>>

\* A fan-out is about to be set up: GetLanguages was called, or
\* GetCommitActivity found the calendar failing and a full scan requested
\* and is at line 207 of getCommitActivityFull.
\* The gate has its smallest capacity, on which every goroutine but one
\* waits, or its largest.
InitFanOut ==
  /\ StreakIdle
  /\ entry \in {"GetLanguages", "GetCommitActivity"}
  /\ maxWorkers \in {1, MaxWorkersBound}
  /\ fullScan = (entry = "GetCommitActivity")
  /\ repos \in (IF entry = "GetLanguages" THEN RepoLists ELSE {<<>>})
  /\ pc = (IF entry = "GetLanguages" THEN "start" ELSE "repositories")
  /\ calls = (IF entry = "GetLanguages" THEN <<>>
              ELSE <<"GetContributionCalendar", "getCommitActivityFull">>)
  /\ dates = <<>>
  /\ err = (IF entry = "GetLanguages" THEN Nil ELSE CalendarErr)
  /\ yearsBack = 0 /\ page = 1 /\ accDates = <<>> /\ dateSet = {}
  /\ requests = <<>>
  /\ idx = 1 /\ wpc = <<>> /\ wres = <<>> /\ werr = <<>>
  /\ wfail = <<>> /\ merged = <<>>
  /\ sem = 0 /\ errChan = <<>> /\ recvd = 0 /\ mu = 0 /\ wg = 0
  /\ languages = EmptyMap /\ firstErr = Nil
  /\ retVal = <<>> /\ retErr = Nil /\ outcome = "pending"
  /\ flags = <<>> /\ stats = <<>> /\ repoCount = <<>>
  /\ cancelled = FALSE

\* The steps of the goroutines of a fan-out and of its caller.
FanOutSteps ==
  \/ CallGetLanguages \/ ListRepositories
  \/ Submit \/ Wait \/ Drain \/ Return \/ CalculateReceives
  \/ \E w \in Workers : Acquire(w)
  \/ \E w \in Workers : FetchLanguages(w)
  \/ \E w \in Workers : FetchCommits(w)
  \/ \E w \in Workers : SendErr(w)
  \/ \E w \in Workers : Lock(w)
  \/ \E w \in Workers : Merge(w)
  \/ \E w \in Workers : Release(w)
  \/ \E w \in Workers : Done(w)

NextFanOut == FanOutSteps \/ Cancel

\* The Go scheduler runs some goroutine that can take a step, and every
\* request returns: while a step of the program is possible one is taken.
\* Nothing is assumed about which goroutine runs, nor about the caller of
\* the client cancelling.
SpecFanOut == InitFanOut /\ [][NextFanOut]_vars /\ WF_vars(FanOutSteps)

\* ---------------------------------------- claims, cancellation and termination
\* The goroutines of the fan-out that have not returned.
Running == {w \in Workers : wpc[w] \notin {"none", "exit"}}

\* The goroutines blocked on the send to sem.
AwaitingSlot == {w \in Workers : wpc[w] = "acquire"}

\* C22: once the context is cancelled during a fan-out, and every request
\* made on the cancelled context returns with an error, every goroutine
\* of the fan-out returns, those waiting for a slot of sem included, and
\* the fan-out returns to its caller.
C22_CancelledFanOutReturns ==
  (cancelled /\ pc = "fanout") ~> (pc = "done" /\ Running = {})

\* GetLanguages over two repositories with one slot was cancelled; both
\* fetches failed, both goroutines returned and GetLanguages returned the
\* error of one of them.
C22_Witness ==
  /\ cancelled /\ pc = "done"
  /\ entry = "GetLanguages" /\ maxWorkers = 1
  /\ Cardinality(Workers) = 2 /\ Failed = Workers
  /\ Running = {} /\ sem = 0 /\ wg = 0
  /\ retErr # Nil

\* ------------------------------------------------------ claims, the mutex
\* The goroutines between mu.Lock() and mu.Unlock().
InCriticalSection == {w \in Workers : wpc[w] = "merge"}

\* The goroutines that have not yet received the answer of their fetch.
BeforeAnswer == {w \in Workers : wpc[w] \in {"none", "acquire", "fetch"}}

\* What the fetch of goroutine w returned, if it did not fail.
Fetched(w) ==
  IF IsLanguages THEN repos[w].langs
  ELSE getRepoCommits(repos[w].commits, wfail[w]).dates

\* C23: at most one goroutine of a fan-out is between mu.Lock() and
\* mu.Unlock(); the mutex is held exactly by that goroutine; and the
\* holder is never one that is fetching or has yet to fetch: its fetch
\* has returned, without an error, the value it is about to merge.
C23_MergeOnlyUnderLock ==
  /\ Cardinality(InCriticalSection) <= 1
  /\ mu # 0 => InCriticalSection = {mu}
  /\ mu = 0 => InCriticalSection = {}
  /\ \A w \in BeforeAnswer : mu # w
  /\ \A w \in InCriticalSection :
       /\ werr[w] = Nil
       /\ wres[w] = Fetched(w)

\* With two slots, one goroutine holds the mutex and merges while the
\* other is in its fetch.
C23_Witness ==
  /\ pc = "fanout"
  /\ \E w, v \in Workers :
       /\ wpc[w] = "merge" /\ mu = w
       /\ wpc[v] = "fetch"

\* ------------------------------------------- claims, the order of the merges
\* What the full scan returns when the goroutines merge in the order of
\* the repository list.
MergedInListOrder ==
  DedupByDay(Concat(wres), [set |-> {}, out |-> <<>>]).out

\* The instants of the sequence ds.
InstantsOf(ds) == {ds[i] : i \in DOMAIN ds}

\* C24: for given dates of each repository, the full scan returns the
\* same days, one instant for each, and the same instant for each day,
\* in whatever order the goroutines merged: the instants it returns are
\* those of a merge in the order of the repository list.
C24_SameInstantForEveryOrder ==
  FullScanReturned =>
    /\ DaysOf(retVal) = DaysOf(MergedInListOrder)
    /\ Cardinality(DaysOf(retVal)) = Len(retVal)
    /\ InstantsOf(retVal) = InstantsOf(MergedInListOrder)

\* ------------------------------------------- claims, the paged strategies
\* GetContributionCalendar is running, or has just returned.
AtCalendar == entry = "GetCommitActivity" /\ pc \in {"calendar", "decide"}

\* The dates of the windows that answered.
WindowDates == Concat([i \in DOMAIN requests |-> requests[i].dates])

\* C25: GetContributionCalendar queries at most 5 windows, the window
\* yearsBack years back being the (yearsBack + 1)-th, and none after a
\* window that failed. If the first window fails it returns an error and
\* no dates; if a later one fails it returns, with a nil error, one
\* instant for each day of the windows that answered, taken from them;
\* and if none fails it has queried all 5.
C25_CalendarWindows ==
  AtCalendar =>
    /\ Len(requests) <= CalendarWindows
    /\ \A i \in DOMAIN requests : requests[i].yearsBack = i - 1
    /\ \A i \in DOMAIN requests : i < Len(requests) => requests[i].ok
    /\ pc = "decide" =>
         /\ requests # <<>>
         /\ IF ~requests[1].ok
            THEN err = CalendarErr /\ dates = <<>> /\ Len(requests) = 1
            ELSE /\ err = Nil
                 /\ DaysOf(dates) = DaysOf(WindowDates)
                 /\ Cardinality(DaysOf(dates)) = Len(dates)
                 /\ InstantsOf(dates) \subseteq InstantsOf(WindowDates)
                 /\ requests[Len(requests)].ok =>
                      Len(requests) = CalendarWindows

\* The first two windows answered with a day each and the third failed:
\* the calendar returned the two days and a nil error after three
\* requests.
C25_Witness ==
  /\ AtCalendar /\ pc = "decide"
  /\ Len(requests) = 3
  /\ requests[1].ok /\ requests[2].ok /\ ~requests[3].ok
  /\ err = Nil
  /\ Len(dates) = 2

\* getCommitActivityRecent is running, or has returned.
AtRecent ==
  /\ entry = "GetCommitActivity"
  /\ "getCommitActivityRecent" \in {calls[i] : i \in DOMAIN calls}

\* The instants at which the event stream has a push.
PushInstants ==
  UNION {{p[i].createdAt[1] :
            i \in {j \in DOMAIN p : /\ p[j].type = <<"PushEvent">>
                                    /\ p[j].createdAt # <<>>}} :
         p \in EventPages}

\* C26: getCommitActivityRecent requests at most 10 pages, page i with
\* its i-th request, and none after a page that reported no next page (or
\* failed); every instant it collects is that of a push event, and it
\* collects, and returns, at most one instant for a day.
C26_RecentPages ==
  AtRecent =>
    /\ Len(requests) <= MaxEventPages
    /\ \A i \in DOMAIN requests : requests[i].page = i
    /\ \A i \in DOMAIN requests :
         i < Len(requests) => requests[i].ok /\ requests[i].next
    /\ InstantsOf(accDates) \subseteq PushInstants
    /\ Cardinality(DaysOf(accDates)) = Len(accDates)
    /\ dateSet = DaysOf(accDates)
    /\ pc = "done" =>
         /\ requests # <<>>
         /\ InstantsOf(retVal) \subseteq PushInstants
         /\ Cardinality(DaysOf(retVal)) = Len(retVal)
         /\ retErr = Nil => retVal = accDates

\* Every one of 10 pages reported a next page; the strategy returned the
\* two days that had a push, having made 10 requests.
C26_Witness ==
  /\ AtRecent /\ pc = "done"
  /\ Len(requests) = MaxEventPages
  /\ \A i \in DOMAIN requests : requests[i].ok /\ requests[i].next
  /\ retErr = Nil
  /\ Len(retVal) = 2

\* ------------------------------------------------- claims, termination
\* The goroutines the range loop has started.
Submitted == {w \in Workers : wpc[w] # "none"}

\* C27: a fan-out with maxWorkers >= 1 whose fetches all return comes to
\* its end with every goroutine returned. A goroutine about to send its
\* error finds room in errChan, which never holds more errors than
\* goroutines were started; and errChan is closed and read only when
\* every goroutine has returned.
C27_FanOutTerminates ==
  /\ [](/\ maxWorkers >= 1
        /\ Len(errChan) <= Cardinality(Submitted)
        /\ (\E w \in Workers : wpc[w] = "senderr") =>
             Len(errChan) - recvd < Len(repos)
        /\ (pc = "drain" \/ recvd > 0) => Running = {})
  /\ (pc = "fanout") ~> (pc = "done" /\ Running = {})

\* GetLanguages over two repositories with one slot came to its end
\* without a cancellation: one fetch failed and its error was returned
\* with the languages of the other repository.
C27_Witness ==
  /\ ~cancelled /\ pc = "done"
  /\ entry = "GetLanguages" /\ maxWorkers = 1
  /\ Cardinality(Submitted) = 2 /\ Cardinality(Failed) = 1
  /\ Running = {} /\ recvd = 1
  /\ retErr # Nil /\ retVal # EmptyMap

\* ---------------------------------------------------- claims, accounting
\* The number of errors on errChan that are the error of repository w.
Recorded(w) ==
  Cardinality({i \in DOMAIN errChan : errChan[i] = LanguagesErr(w)})

RECURSIVE MergeCount(_)
\* The number of merges the goroutines of S have made.
MergeCount(S) ==
  IF S = {} THEN 0
  ELSE LET w == CHOOSE v \in S : TRUE
       IN merged[w] + MergeCount(S \ {w})

\* C28: during GetLanguages no repository is both merged and recorded as
\* an error, nor either of them twice; and when GetLanguages returns
\* every repository that is no fork was merged exactly once or has
\* exactly one error on errChan, so that merges and errors together are
\* as many as the repositories that are no forks. A fork has neither.
C28_AccountedOnce ==
  IsLanguages =>
    /\ \A w \in Workers : merged[w] + Recorded(w) <= 1
    /\ \A w \in Workers \ NonForks : merged[w] = 0 /\ Recorded(w) = 0
    /\ pc = "done" =>
         /\ \A w \in NonForks : merged[w] + Recorded(w) = 1
         /\ \A w \in NonForks : merged[w] = 1 <=> werr[w] = Nil
         /\ MergeCount(Workers) + Len(errChan) = Cardinality(NonForks)

\* GetLanguages returned: of two repositories that are no forks one was
\* merged and the other has its error on errChan.
C28_Witness ==
  /\ IsLanguages /\ pc = "done"
  /\ Cardinality(NonForks) = 2
  /\ MergeCount(Workers) = 1
  /\ Len(errChan) = 1

\* ------------------------------------------- claims, the recent strategy
\* A page request of getCommitActivityRecent has failed.
RecentPageFailed ==
  /\ AtRecent
  /\ requests # <<>> /\ ~requests[Len(requests)].ok

\* C29: when a page request of getCommitActivityRecent fails, the first
\* or a later one, the strategy returns the error and none of the dates
\* it has collected, GetCommitActivity returns just that, and Calculate
\* does not go on to a report: it aborts.
C29_RecentFailureAborts ==
  RecentPageFailed =>
    /\ pc = "done"
    /\ retVal = <<>>
    /\ retErr = EventsErr
    /\ calls = <<"GetContributionCalendar", "getCommitActivityRecent">>
    /\ outcome \in {"pending", "aborted"}

\* The third page request failed after two pages with pushes on two days:
\* no date was returned and Calculate aborted.
C29_Witness ==
  /\ RecentPageFailed
  /\ Len(requests) = 3
  /\ Len(accDates) = 2
  /\ retVal = <<>> /\ retErr = EventsErr
  /\ outcome = "aborted"

====
